---- MODULE Spec2Model ----
(***************************************************************************)
(* Model of the PayFlow polling worker (api/app/worker): the financial     *)
(* processor's cycle per account (token -> checkpoint -> fetch -> expand   *)
(* -> per-attachment pipeline -> checkpoint advance), over the tables of   *)
(* api/app/database.py.                                                    *)
(*                                                                         *)
(* Time is counted in units of one polling interval (300 s).  Faults are   *)
(* injected where the source handles them: every provider call may fail,   *)
(* the mailer may return False, and the ledger lookup, the ledger insert   *)
(* and the audit-log inserts may raise inside their try/except.            *)
(***************************************************************************)
EXTENDS Integers, Sequences, FiniteSets, Bags, TLC

VARIABLES
    now,          \* datetime.now(timezone.utc), in units
    cycles,       \* number of process_account calls started so far
    creds,        \* table oauth_tokens:          account_id -> row (present or not)
    checkpoints,  \* table financial_checkpoints: account_id -> row (present or not)
    ledger,       \* table sent_receipts:  sequence of rows (insertion order)
    audit,        \* table email_logs:     bag of rows (the table is append-only and never read)
    dispatched,   \* per triple, number of times the mailer returned True
    run,          \* per processor instance, the locals of process_account
    hist,         \* per processor instance, what the current/last cycle did
    loop,         \* worker_loop: position, accounts left in the tick, totals
    session,      \* the SQLAlchemy session of a refresh: uncommitted attribute changes
    http,         \* ContaAzulFinancialClient._request: one logical request in flight
    pager,        \* ContaAzulFinancialClient.get_receivables: the pagination loop
    probe,        \* download_receipt: the URL under validation, the verdict, the requests
    expiry,       \* is_token_expired: the credential looked at and the answer
    vault,        \* save_tokens: the oauth_tokens and azul_accounts tables and the session
    ckpt,         \* _get_or_create_checkpoint: the financial_checkpoints table
    cipher,       \* CryptoManager: the text, the ciphertext and the decryption
    mail,         \* send_receipt_email: the message, the SMTP connection and the result
    limiter,      \* one client instance: the clock, _last_request_time, the call starts
    boot          \* the worker process: its environment, worker_loop's position and counts

\* the state of the polling cycle itself
core == <<now, cycles, creds, checkpoints, ledger, audit, dispatched, run, hist>>

\* the state of the components modelled on their own
more == <<expiry, vault, ckpt, cipher, mail>>

extra == <<limiter, boot>>

side == <<loop, session, http, pager, probe, more, extra>>

vars == <<core, side>>

----------------------------------------------------------------------------
(* Program constants *)

POLLING_INTERVAL_SECONDS == 300
POLLING_SAFETY_WINDOW_MINUTES == 10
LOOKBACK_DAYS == 30
DEFAULT_EXPIRES_IN == 3600
MAX_ATTEMPTS == 5
BACKOFF_CAP_SECONDS == 16
RECEIVABLES_PAGE_SIZE == 100
MAX_PAGES == 100
MAX_ATTACHMENT_MB == 10

\* one model time unit is one polling interval
Unit == POLLING_INTERVAL_SECONDS
SafetyWindow == (POLLING_SAFETY_WINDOW_MINUTES * 60) \div Unit
Lookback == (LOOKBACK_DAYS * 86400) \div Unit
ExpiresIn == DEFAULT_EXPIRES_IN \div Unit

(* Bounds of the model *)
MaxTicks == 3
MaxCycles == 2
MaxCrashes == 1
MaxAccounts == 3
MaxFullPages == 101
MaxSessions == 2
MaxInstant == 4
MaxSaves == 3
MaxCheckpointCalls == 3
MaxTextLen == 2
MaxClockMs == 300
MIN_INTERVAL_MS == 100
MIN_PDF_BYTES == 1024
MAX_PDF_BYTES == 104857600
MAX_RESPONSE_SIZE == 104857600

\* the instant the worker is started
Now0 == Lookback

\* an absent row of oauth_tokens / financial_checkpoints
NoCred == [present |-> FALSE, access |-> 0, access_ok |-> FALSE, refresh |-> 0, expires_at |-> 0]
NoCheckpoint == [present |-> FALSE, has_value |-> FALSE, last_processed_changed_at |-> 0]
NoResult == <<>>

Accounts == {"A1"}
\* the accounts of a deployment with two connected accounts
Tenants == {"A1", "A2"}
AllProcs == {1, 2}
\* the worker process of a deployment
P == 1

\* the components modelled on their own, at rest
\* flags: is_active of the rows of azul_accounts; seen: the flags as they
\* were when the tick read the list; read_ok: the read did not raise
IdleLoop ==
    [pc |-> "idle", accounts |-> <<>>, listed |-> <<>>, visited |-> <<>>,
     outcomes |-> <<>>, total_processed |-> 0, total_errors |-> 0,
     flags |-> [k \in 1..MaxAccounts |-> 0], seen |-> [k \in 1..MaxAccounts |-> 0],
     read_ok |-> FALSE]
\* a value of the token exchange: a text with the number of the exchange
\* that issued it (0: issued before the first exchange looked at)
AccessToken(n) == [text |-> "access", gen |-> n]

RefreshTokenValue(n) == [text |-> "refresh", gen |-> n]

\* Python's None, and the text str(None)
PyNone == [text |-> "", gen |-> 0]

NoneText == [text |-> "None", gen |-> 0]

\* CryptoManager.encrypt: a value that is not a str goes through str() first
Encrypt(plaintext) ==
    [cipher |-> IF plaintext = PyNone THEN NoneText ELSE plaintext, intact |-> TRUE]

\* CryptoManager.decrypt, which raises on a ciphertext that is not intact
Decrypt(ciphertext) == ciphertext.cipher

\* the oauth_tokens row of the account, as committed, or its absence
NoRow ==
    [exists |-> FALSE, access_token |-> Encrypt(PyNone),
     refresh_token |-> Encrypt(PyNone), expires_at |-> 0]

NoResponse ==
    [status |-> 0, json |-> FALSE, access_token |-> PyNone, refresh_token |-> PyNone,
     expires_in |-> [type |-> "absent", value |-> 0]]

NoSession ==
    [pc |-> "idle", clock |-> 0, sessions |-> 0, gen |-> 0, stored |-> NoRow,
     attrs |-> NoRow, dirty |-> FALSE, inactive |-> FALSE, before |-> NoRow,
     response |-> NoResponse, result |-> "none", posted |-> <<>>]
IdleHttp ==
    [pc |-> "idle", client |-> "financial", attempts |-> 0, responses |-> <<>>,
     waits |-> <<>>, outcome |-> "none"]
\* failed: a page request of the call raised; handled: the receivables
\* process_account went through after the call; advanced: it updated the
\* checkpoint
IdlePager ==
    [pc |-> "idle", total |-> 0, current_page |-> 0, all_items |-> <<>>,
     requests |-> <<>>, failed |-> FALSE, handled |-> <<>>, advanced |-> FALSE]
NoResponseYet == [status |-> 0, location |-> <<>>, large |-> FALSE]

NoProbe ==
    [pc |-> "idle", url |-> <<>>, scheme |-> <<>>, userinfo |-> <<>>, host |-> <<>>,
     verdict |-> FALSE, requests |-> <<>>, response |-> NoResponseYet,
     result |-> "idle"]

\* a datetime: the wall-clock reading, in hours, and its tzinfo: none
\* ("naive"), timezone.utc ("utc") or UTC-3 ("minus3")
DateTime(wall, tz) == [wall |-> wall, tz |-> tz]

NoExpiry ==
    [pc |-> "idle", source |-> "none", now |-> DateTime(0, "utc"),
     expires_at |-> DateTime(0, "utc"), outcome |-> "none"]
\* the arguments of a save_tokens call
NoSaveArgs ==
    [account_id |-> "", access_token |-> PyNone, refresh_token |-> PyNone,
     expires_in |-> [type |-> "absent", value |-> 0],
     owner_email |-> "", owner_name |-> "", company_name |-> ""]

NoVault ==
    [pc |-> "idle", saves |-> 0, tokens |-> <<>>, accounts |-> <<>>,
     before_tokens |-> <<>>, before_accounts |-> <<>>, args |-> NoSaveArgs,
     result |-> FALSE, saved |-> <<>>]
\* a row of financial_checkpoints, or none
NoCheckpointRow ==
    [account_id |-> "", has_value |-> FALSE, last_processed_changed_at |-> 0]

\* a caller of _get_or_create_checkpoint that is not inside the call
IdleCaller ==
    [pc |-> "idle", account_id |-> "", found |-> FALSE, seen |-> NoCheckpointRow,
     row |-> NoCheckpointRow, created |-> FALSE, at |-> 0, outcome |-> "none"]

NoCkpt ==
    [now |-> LOOKBACK_DAYS, calls |-> 0, rows |-> <<>>,
     callers |-> [c \in AllProcs |-> IdleCaller]]
NoCipher ==
    [pc |-> "idle", text |-> <<>>, tokens |-> <<>>, ivs |-> {}, key |-> "",
     decrypt_key |-> "", plain |-> <<>>, outcome |-> "none"]
\* the arguments of send_receipt_email: the addresses and the file name as
\* the pieces of text they are written with, the PDF by its size in MB and
\* its first bytes, the amount by its type
NoMailArgs ==
    [doctor_email |-> <<>>, reply_to |-> <<>>, pdf |-> [size |-> 0, magic |-> FALSE],
     pdf_filename |-> <<>>, amount |-> "float"]

NoMail ==
    [pc |-> "idle", args |-> NoMailArgs, use_ssl |-> FALSE, use_tls |-> FALSE,
     fault |-> "none", smtp |-> <<>>, outcome |-> "none"]

\* a client instance just constructed, in milliseconds; -1 is None
NoLimiter == [clock |-> 0, last_request_time |-> -1, starts |-> <<>>]

\* the worker process before it is started; a setting is "unset" (no
\* environment variable), "empty", or a text that is or is not what the
\* setting asks for; the master key is the number of bytes it decodes to
NoBoot ==
    [pc |-> "off",
     env |-> [MASTER_KEY |-> [set |-> TRUE, decodes |-> TRUE, bytes |-> 32],
              SMTP_HOST |-> "set", SMTP_USER |-> "set", SMTP_PASSWORD |-> "set",
              SMTP_FROM |-> "valid"],
     iterations |-> 0, constructed |-> 0, polls |-> 0, logged |-> 0, exit_code |-> -1]

ExtraAtRest ==
    /\ limiter = NoLimiter
    /\ boot = NoBoot

MoreAtRest ==
    /\ expiry = NoExpiry
    /\ vault = NoVault
    /\ ckpt = NoCkpt
    /\ cipher = NoCipher
    /\ mail = NoMail

SideAtRest ==
    /\ MoreAtRest
    /\ ExtraAtRest
    /\ loop = IdleLoop
    /\ session = NoSession
    /\ http = IdleHttp
    /\ pager = IdlePager
    /\ probe = NoProbe

----------------------------------------------------------------------------
(* The provider's data, as the financial API returns it.  R1 changed       *)
(* longer ago than the safety window, R2 within it.                        *)

DOCTORS_FALLBACK ==
    [c \in {"Acme", "Beta"} |->
        IF c = "Acme" THEN "d9@example.com" ELSE "d2@example.com"]

ProviderReceivables ==
    << [id |-> "R1", changedAt |-> Now0 - 3, customerName |-> "Acme",
        installments |->
          << [id |-> "I1", status |-> "received", doctorEmail |-> "d1@example.com",
              attachments |-> << [id |-> "A1", url |-> "U1", content |-> "pdf"] >> ] >> ],
       [id |-> "R2", changedAt |-> Now0 - 1, customerName |-> "Beta",
        installments |->
          << [id |-> "I2", status |-> "paid", doctorEmail |-> "",
              attachments |-> << [id |-> "A2", url |-> "U2", content |-> "pdf"],
                                 [id |-> "A3", url |-> "U3", content |-> "small"] >> ],
             [id |-> "I3", status |-> "pending", doctorEmail |-> "",
              attachments |-> << [id |-> "A4", url |-> "U4", content |-> "pdf"] >> ] >> ] >>

\* the data of the second account: R1 is the same receivable, with the same
\* installment id and attachment URL, as in the first account; R9 has no
\* entry in the fallback map and attachments of every kind of content
TenantReceivables ==
    << [id |-> "R1", changedAt |-> Now0 - 3, customerName |-> "Acme",
        installments |->
          << [id |-> "I1", status |-> "received", doctorEmail |-> "d1@example.com",
              attachments |-> << [id |-> "A1", url |-> "U1", content |-> "pdf"] >> ] >> ],
       [id |-> "R9", changedAt |-> Now0 - 1, customerName |-> "Gama",
        installments |->
          << [id |-> "I5", status |-> "settled", doctorEmail |-> "",
              attachments |-> << [id |-> "A5", url |-> "U5", content |-> "pdf"] >> ],
             [id |-> "I6", status |-> "paid", doctorEmail |-> "d6@example.com",
              attachments |-> << [id |-> "A6", url |-> "U6", content |-> "notpdf"],
                                 [id |-> "A7", url |-> "U7", content |-> "huge"],
                                 [id |-> "A8", url |-> "U8", content |-> "small"],
                                 [id |-> "A9", url |-> "U9", content |-> "smallest"] >> ],
             [id |-> "I7", status |-> "cancelled", doctorEmail |-> "d6@example.com",
              attachments |-> << [id |-> "A10", url |-> "U10", content |-> "pdf"] >> ] >> ] >>

\* what the provider returns for the access token of an account
ProviderData(a) == IF a = "A1" THEN ProviderReceivables ELSE TenantReceivables

RECURSIVE SeqToSet(_)
SeqToSet(s) == IF s = <<>> THEN {} ELSE {Head(s)} \cup SeqToSet(Tail(s))

ReceivableById(a, rid) ==
    CHOOSE r \in SeqToSet(ProviderData(a)) : r.id = rid

AllInstallments(a) ==
    UNION { SeqToSet(r.installments) : r \in SeqToSet(ProviderData(a)) }

\* every (account, installment, url) triple the provider data can give rise to
Triples ==
    UNION { UNION { { <<a, i.id, t.url>> : t \in SeqToSet(i.attachments) } :
                      i \in AllInstallments(a) } :
              a \in Tenants }

\* the bytes behind an attachment URL: whether they start with %PDF, and
\* their number
ContentBytes(content) ==
    CASE content = "pdf"      -> [magic |-> TRUE,  size |-> 2 * MIN_PDF_BYTES]
      [] content = "smallest" -> [magic |-> TRUE,  size |-> MIN_PDF_BYTES]
      [] content = "small"    -> [magic |-> TRUE,  size |-> MIN_PDF_BYTES - 1]
      [] content = "notpdf"   -> [magic |-> FALSE, size |-> 2 * MIN_PDF_BYTES]
      [] content = "huge"     -> [magic |-> TRUE,  size |-> MAX_PDF_BYTES + 1]
      [] OTHER                -> [magic |-> FALSE, size |-> 0]

\* GET .../contas-a-receber/buscar with data_alteracao_de/_ate: the ids of the
\* receivables whose change instant lies in [changed_since, now]
GetReceivables(a, changed_since, upto) ==
    LET hit == SelectSeq(ProviderData(a),
                         LAMBDA r : changed_since <= r.changedAt /\ r.changedAt <= upto)
    IN  [k \in 1..Len(hit) |-> hit[k].id]

----------------------------------------------------------------------------
(* Tables *)

\* sent_receipts: the rows of a triple
LedgerRows(t) ==
    SelectSeq(ledger, LAMBDA row : <<row.account_id, row.installment_id,
                                     row.attachment_url>> = t)

LedgerCount(t) == Len(LedgerRows(t))

InLedger(t) == LedgerCount(t) > 0

\* sent_receipts declared without its unique constraint
UniqueViolation_Undeclared(rows, row) == FALSE

\* uq_sent_receipt_idempotency: the commit of a row whose triple is present
\* raises IntegrityError
UniqueViolation(rows, row) ==
    \E k \in 1..Len(rows) :
        /\ rows[k].account_id = row.account_id
        /\ rows[k].installment_id = row.installment_id
        /\ rows[k].attachment_url = row.attachment_url

\* email_logs: the rows of one attachment id with one status
AuditCount(rows, receipt_id, status) ==
    BagCardinality([row \in { x \in BagToSet(rows) :
                                x.receipt_id = receipt_id /\ x.status = status }
                     |-> rows[row]])

----------------------------------------------------------------------------
(* Locals of process_account and the position in its three nested loops *)

IdleRun ==
    [pc |-> "idle", account |-> "A1", access_token |-> 0, changed_since |-> 0,
     receivables |-> <<>>, ri |-> 0, ii |-> 0, ai |-> 0,
     processed |-> 0, errors |-> 0, result |-> NoResult,
     pdf |-> "", doctor_email |-> ""]

\* fetchedAt is the instant of the last fetch that returned (the upper bound
\* data_alteracao_ate of its query), raised the number of exceptions caught in
\* the cycle, crashes the number of process crashes per triple that fell
\* between its send and its record
NoHist ==
    [cpStart |-> NoCheckpoint, requests |-> 0, advances |-> 0, abort |-> "never",
     steps |-> <<>>, prevSince |-> 0, prevAbort |-> "never",
     failedPrev |-> {}, failedNow |-> {},
     fetchedAt |-> 0, raised |-> 0, crashes |-> [t \in Triples |-> 0],
     details |-> 0, lookup |-> "none", verdict |-> "none"]

CurReceivable(r) == ReceivableById(r.account, r.receivables[r.ri])
CurInstallment(r) == CurReceivable(r).installments[r.ii]
CurAttachment(r) == CurInstallment(r).attachments[r.ai]
CurTriple(r) == <<r.account, CurInstallment(r).id, CurAttachment(r).url>>

\* process_account returns (processed, errors)
Return(r, processed, errors) ==
    [r EXCEPT !.pc = "idle", !.result = <<processed, errors>>]

\* a receivable loop that returns at the first failed receivable
AfterReceivable_ReturnOnError(r, success) ==
    IF success
    THEN LET c == [r EXCEPT !.processed = @ + 1]
         IN  IF r.ri < Len(r.receivables)
             THEN [c EXCEPT !.pc = "recv", !.ri = @ + 1, !.ii = 0, !.ai = 0]
             ELSE [c EXCEPT !.pc = "advance", !.ii = 0, !.ai = 0]
    ELSE Return(r, r.processed, r.errors + 1)

\* the receivable loop of process_account: count the outcome, go to the next
\* receivable, after the last one to step 7 (checkpoint)
AfterReceivable(r, success) ==
    LET c == IF success THEN [r EXCEPT !.processed = @ + 1]
                        ELSE [r EXCEPT !.errors = @ + 1]
    IN  IF r.ri < Len(r.receivables)
        THEN [c EXCEPT !.pc = "recv", !.ri = @ + 1, !.ii = 0, !.ai = 0]
        ELSE [c EXCEPT !.pc = "advance", !.ii = 0, !.ai = 0]

\* the installment loop of _process_receivable, which returns True at its end
AfterInstallment(r) ==
    IF r.ii < Len(CurReceivable(r).installments)
    THEN [r EXCEPT !.pc = "inst", !.ii = @ + 1, !.ai = 0]
    ELSE AfterReceivable(r, TRUE)

\* the attachment loop of _process_installment; the locals of
\* _process_attachment end with its return
AfterAttachment(r) ==
    IF r.ai < Len(CurInstallment(r).attachments)
    THEN [r EXCEPT !.pc = "att", !.ai = @ + 1, !.pdf = "", !.doctor_email = ""]
    ELSE AfterInstallment([r EXCEPT !.pdf = "", !.doctor_email = ""])

----------------------------------------------------------------------------
(* Token service and checkpoint store *)

\* a comparison that leaves out the instant of expiry itself
IsTokenExpired_Strict(t, tok) == t > tok.expires_at

\* ContaAzulAuthService.is_token_expired
IsTokenExpired(t, tok) == t >= tok.expires_at

\* _get_or_create_checkpoint: the table after the call at instant t
GetOrCreateCheckpoint(cps, a, t) ==
    IF cps[a].present
    THEN cps
    ELSE [cps EXCEPT ![a] = [present |-> TRUE, has_value |-> TRUE,
                             last_processed_changed_at |-> t - Lookback]]

\* _calculate_changed_since at instant t
CalculateChangedSince(cp, t) ==
    IF ~cp.has_value
    THEN t - Lookback
    ELSE cp.last_processed_changed_at - SafetyWindow

\* _update_checkpoint storing the changed-since bound of the query instead
\* of the current instant
UpdateCheckpoint_StoreChangedSince(cps, a, t) ==
    [cps EXCEPT ![a] = [present |-> TRUE, has_value |-> TRUE,
                        last_processed_changed_at |-> CalculateChangedSince(cps[a], t)]]

\* _update_checkpoint at instant t
UpdateCheckpoint(cps, a, t) ==
    [cps EXCEPT ![a] = [present |-> TRUE, has_value |-> TRUE,
                        last_processed_changed_at |-> t]]

\* a resolution that looks at the fallback map first
ResolveDoctorEmail_FallbackFirst(customer_name, installment) ==
    IF customer_name \in DOMAIN DOCTORS_FALLBACK
    THEN DOCTORS_FALLBACK[customer_name]
    ELSE installment.doctorEmail

\* _resolve_doctor_email: installment field, else the fallback map, else ""
ResolveDoctorEmail(customer_name, installment) ==
    IF installment.doctorEmail # ""
    THEN installment.doctorEmail
    ELSE IF customer_name \in DOMAIN DOCTORS_FALLBACK
         THEN DOCTORS_FALLBACK[customer_name]
         ELSE ""

\* client.download_receipt and ReceiptDownloader.download_receipt hand the
\* bytes on when they are not above MAX_RESPONSE_SIZE, not empty and start
\* with %PDF
Downloadable(content) ==
    LET b == ContentBytes(content)
    IN  /\ b.size <= MAX_RESPONSE_SIZE
        /\ b.size > 0
        /\ b.magic

\* a validation without the lower limit on the size
ValidateReceipt_NoMinimum(content) ==
    LET b == ContentBytes(content)
    IN  /\ b.size > 0
        /\ b.magic
        /\ b.size <= MAX_PDF_BYTES

\* ReceiptDownloader.validate_receipt: not empty, %PDF, 1 KB to 100 MB
ValidateReceipt(content) ==
    LET b == ContentBytes(content)
    IN  /\ b.size > 0
        /\ b.magic
        /\ ~(b.size < MIN_PDF_BYTES)
        /\ ~(b.size > MAX_PDF_BYTES)

----------------------------------------------------------------------------
(* process_account, one step per network or database call *)

\* steps 1-2 up to the refresh call: get_token, decrypt, is_token_expired;
\* cps is the checkpoint table these steps leave
StartCycleWith(p, a, cps) ==
    LET tok == creds[a]
        r0  == [IdleRun EXCEPT !.account = a]
        h   == hist[p]
        h0  == [cpStart |-> checkpoints[a], requests |-> 0, advances |-> 0,
                abort |-> "none", steps |-> <<>>,
                prevSince |-> run[p].changed_since, prevAbort |-> h.abort,
                failedPrev |-> IF h.abort = "none" THEN h.failedNow ELSE h.failedPrev,
                failedNow |-> {},
                fetchedAt |-> h.fetchedAt, raised |-> 0, crashes |-> h.crashes,
                details |-> 0, lookup |-> "none", verdict |-> "none"]
    IN  /\ run[p].pc = "idle"
        /\ cycles < MaxCycles
        /\ cycles' = cycles + 1
        /\ checkpoints' = cps
        /\ IF ~tok.present
           THEN /\ run' = [run EXCEPT ![p] = Return(r0, 0, 1)]
                /\ hist' = [hist EXCEPT ![p] = [h0 EXCEPT !.abort = "no_token"]]
           ELSE IF ~tok.access_ok
           THEN /\ run' = [run EXCEPT ![p] = Return(r0, 0, 1)]
                /\ hist' = [hist EXCEPT ![p] = [h0 EXCEPT !.abort = "decrypt"]]
           ELSE /\ run' = [run EXCEPT ![p] =
                       [r0 EXCEPT !.pc = IF IsTokenExpired(now, tok) THEN "refresh"
                                                                     ELSE "checkpoint",
                                  !.access_token = tok.access]]
                /\ hist' = [hist EXCEPT ![p] = h0]
        /\ UNCHANGED <<now, creds, ledger, audit, dispatched, side>>

\* process_account obtaining the checkpoint before it looks at the token
StartCycle_CheckpointFirst(p) ==
    \E a \in Accounts : StartCycleWith(p, a, GetOrCreateCheckpoint(checkpoints, a, now))

StartCycle(p) ==
    \E a \in Accounts : StartCycleWith(p, a, checkpoints)

\* refresh_access_token: the exchange succeeds and the rotated pair is
\* committed, or it fails and None comes back
RefreshToken(p) ==
    /\ run[p].pc = "refresh"
    /\ LET a == run[p].account
           tok == creds[a]
       IN \E ok \in BOOLEAN :
            IF ok /\ tok.present
            THEN /\ creds' = [creds EXCEPT ![a] =
                        [present |-> TRUE, access |-> tok.access + 1, access_ok |-> TRUE,
                         refresh |-> tok.refresh + 1, expires_at |-> now + ExpiresIn]]
                 /\ run' = [run EXCEPT ![p].pc = "checkpoint",
                                       ![p].access_token = tok.access + 1]
                 /\ hist' = hist
            ELSE /\ creds' = creds
                 /\ run' = [run EXCEPT ![p] = Return(run[p], 0, 1)]
                 /\ hist' = [hist EXCEPT ![p].abort = "refresh"]
    /\ UNCHANGED <<now, cycles, checkpoints, ledger, audit, dispatched, side>>

\* step 4: _get_or_create_checkpoint and _calculate_changed_since
LoadCheckpoint(p) ==
    /\ run[p].pc = "checkpoint"
    /\ LET a == run[p].account
           cps == GetOrCreateCheckpoint(checkpoints, a, now)
       IN /\ checkpoints' = cps
          /\ run' = [run EXCEPT ![p].pc = "fetch",
                                ![p].changed_since = CalculateChangedSince(cps[a], now)]
    /\ UNCHANGED <<now, cycles, creds, ledger, audit, dispatched, hist, side>>

\* an except branch that advances the checkpoint before returning
OnFetchError_Advance(cps, a, t) == UpdateCheckpoint(cps, a, t)

\* the except branch of step 5: log and return, the table is not touched
OnFetchError(cps, a, t) == cps

\* step 5 and the empty-list return: client.get_receivables raises, or
\* returns the receivables changed in [changed_since, now]
FetchReceivables(p) ==
    /\ run[p].pc = "fetch"
    /\ LET a == run[p].account
           r == run[p]
       IN \E ok \in BOOLEAN :
            IF ~ok
            THEN /\ run' = [run EXCEPT ![p] = Return(r, 0, 1)]
                 /\ hist' = [hist EXCEPT ![p].requests = @ + 1, ![p].abort = "fetch"]
                 /\ checkpoints' = OnFetchError(checkpoints, a, now)
            ELSE LET got == GetReceivables(a, r.changed_since, now)
                 IN IF got = <<>>
                    THEN /\ checkpoints' = UpdateCheckpoint(checkpoints, a, now)
                         /\ run' = [run EXCEPT ![p] = Return(r, 0, 0)]
                         /\ hist' = [hist EXCEPT ![p].requests = @ + 1,
                                                 ![p].advances = @ + 1,
                                                 ![p].fetchedAt = now]
                    ELSE /\ checkpoints' = checkpoints
                         /\ run' = [run EXCEPT ![p].pc = "recv", ![p].receivables = got,
                                               ![p].ri = 1]
                         /\ hist' = [hist EXCEPT ![p].requests = @ + 1,
                                                 ![p].fetchedAt = now]
    /\ UNCHANGED <<now, cycles, creds, ledger, audit, dispatched, side>>

\* _process_receivable up to its installment loop: get_receivable_details
\* raises (False), or the details hold no installment (False), or the loop
\* starts; hist.raised counts the exceptions caught in the cycle
ProcessReceivable(p) ==
    /\ run[p].pc = "recv"
    /\ LET r == run[p]
       IN \E ok \in BOOLEAN :
            /\ run' = [run EXCEPT ![p] =
                  IF ~ok \/ CurReceivable(r).installments = <<>>
                  THEN AfterReceivable(r, FALSE)
                  ELSE [r EXCEPT !.pc = "inst", !.ii = 1]]
            /\ hist' = [hist EXCEPT ![p].raised = IF ok THEN @ ELSE @ + 1,
                                    ![p].verdict = "none"]
    /\ UNCHANGED <<now, cycles, creds, checkpoints, ledger, audit, dispatched, side>>

\* a filter that lets every status through
IsSettled_Any(status) == TRUE

\* status not in ("received", "paid", "settled") returns
IsSettled(status) == status \in {"received", "paid", "settled"}

\* _process_installment up to its attachment loop: status filter,
\* get_installment_details (may raise), attachments present
ProcessInstallment(p) ==
    /\ run[p].pc = "inst"
    /\ LET r == [run[p] EXCEPT !.ai = 0]
           inst == CurInstallment(r)
           asked == IsSettled(inst.status)
       IN \E ok \in BOOLEAN :
            /\ run' = [run EXCEPT ![p] =
                  IF ~asked
                  THEN AfterInstallment(r)
                  ELSE IF ~ok \/ inst.attachments = <<>>
                  THEN AfterInstallment(r)
                  ELSE [r EXCEPT !.pc = "att", !.ai = 1]]
            /\ hist' = [hist EXCEPT ![p].raised = IF asked /\ ~ok THEN @ + 1 ELSE @,
                                    ![p].details = IF asked THEN @ + 1 ELSE @,
                                    ![p].verdict = "none"]
    /\ UNCHANGED <<now, cycles, creds, checkpoints, ledger, audit, dispatched, side>>

----------------------------------------------------------------------------
(* _process_attachment *)

\* a lookup that reports "delivered" when the query raises
IsReceiptAlreadySent_FailClosed(rows, t, db_ok) ==
    IF db_ok
    THEN \E k \in 1..Len(rows) :
            <<rows[k].account_id, rows[k].installment_id, rows[k].attachment_url>> = t
    ELSE TRUE

\* a lookup by installment id and attachment URL alone
IsReceiptAlreadySent_AnyAccount(rows, t, db_ok) ==
    IF db_ok
    THEN \E k \in 1..Len(rows) :
            <<rows[k].installment_id, rows[k].attachment_url>> = <<t[2], t[3]>>
    ELSE FALSE

\* _is_receipt_already_sent: the point lookup; a raising query is logged
\* and answered False
IsReceiptAlreadySent(rows, t, db_ok) ==
    IF db_ok
    THEN \E k \in 1..Len(rows) :
            <<rows[k].account_id, rows[k].installment_id, rows[k].attachment_url>> = t
    ELSE FALSE

\* _register_sent_receipt with db.merge in place of db.add: the row of a
\* triple already present is overwritten
RegisterSentReceipt_Merge(rows, row, db_ok) ==
    IF ~db_ok THEN rows
    ELSE IF UniqueViolation(rows, row)
    THEN [k \in 1..Len(rows) |->
            IF /\ rows[k].account_id = row.account_id
               /\ rows[k].installment_id = row.installment_id
               /\ rows[k].attachment_url = row.attachment_url
            THEN row ELSE rows[k]]
    ELSE Append(rows, row)

\* _register_sent_receipt adding the row also when its triple is present
RegisterSentReceipt_AppendAnyway(rows, row, db_ok) ==
    IF db_ok THEN Append(rows, row) ELSE rows

\* _register_sent_receipt: add + commit; IntegrityError and any other
\* database error are logged and rolled back
RegisterSentReceipt(rows, row, db_ok) ==
    IF db_ok /\ ~UniqueViolation(rows, row)
    THEN Append(rows, row)
    ELSE rows

\* _log_email_sent / _log_email_failed: add + commit, rolled back on error
LogEmail(rows, row, db_ok) ==
    IF db_ok THEN rows (+) SetToBag({row}) ELSE rows

\* the steps taken so far in the pipeline of the current attachment; the
\* record is dropped when the pipeline is left
InPipeline(r) == r.pc \in {"download", "validate", "send", "register", "logsent", "logfail"}

Trace(r, steps) == IF InPipeline(r) THEN steps ELSE <<>>

\* idempotency check, first step of the pipeline of one attachment
CheckIdempotency(p) ==
    /\ run[p].pc = "att"
    /\ LET r == run[p]
       IN \E db_ok \in BOOLEAN :
            /\ run' = [run EXCEPT ![p] =
                  IF IsReceiptAlreadySent(ledger, CurTriple(r), db_ok)
                  THEN AfterAttachment(r)
                  ELSE [r EXCEPT !.pc = "download"]]
            /\ hist' = [hist EXCEPT ![p].steps = Trace(run'[p], <<"lookup">>),
                                    ![p].lookup = IF db_ok THEN "none" ELSE "raised",
                                    ![p].verdict = "none"]
    /\ UNCHANGED <<now, cycles, creds, checkpoints, ledger, audit, dispatched, side>>

\* downloader.download_receipt: None on any failure and on content that
\* does not start with %PDF
DownloadReceipt(p) ==
    /\ run[p].pc = "download"
    /\ LET r == run[p]
           content == CurAttachment(r).content
       IN \E ok \in BOOLEAN :
            run' = [run EXCEPT ![p] =
                IF ok /\ Downloadable(content)
                THEN [r EXCEPT !.pc = "validate", !.pdf = content]
                ELSE AfterAttachment(r)]
    /\ hist' = [hist EXCEPT ![p].steps = Trace(run'[p], Append(@, "download")),
                            ![p].lookup = "none"]
    /\ UNCHANGED <<now, cycles, creds, checkpoints, ledger, audit, dispatched, side>>

\* validate_receipt, get_receipt_hash, _resolve_doctor_email
ValidateAndResolve(p) ==
    /\ run[p].pc = "validate"
    /\ LET r == run[p]
           email == ResolveDoctorEmail(CurReceivable(r).customerName, CurInstallment(r))
       IN /\ run' = [run EXCEPT ![p] =
                IF ~ValidateReceipt(r.pdf) \/ email = ""
                THEN AfterAttachment(r)
                ELSE [r EXCEPT !.pc = "send", !.doctor_email = email]]
          /\ hist' = [hist EXCEPT ![p].steps = Trace(run'[p], @),
                                  ![p].verdict = IF ~ValidateReceipt(r.pdf) THEN "invalid_pdf"
                                                 ELSE IF email = "" THEN "no_email"
                                                 ELSE "none"]
    /\ UNCHANGED <<now, cycles, creds, checkpoints, ledger, audit, dispatched, side>>

\* a pipeline that registers the receipt whatever the mailer returned
SendReceiptEmail_IgnoreResult(p) ==
    /\ run[p].pc = "send"
    /\ LET t == CurTriple(run[p])
       IN \E success \in BOOLEAN :
            IF success
            THEN /\ dispatched' = [dispatched EXCEPT ![t] = @ + 1]
                 /\ hist' = [hist EXCEPT ![p].steps = Append(@, "sent")]
            ELSE /\ dispatched' = dispatched
                 /\ hist' = [hist EXCEPT ![p].steps = Append(@, "send_failed"),
                                         ![p].failedNow = @ \cup {t}]
    /\ run' = [run EXCEPT ![p].pc = "register"]
    /\ UNCHANGED <<now, cycles, creds, checkpoints, ledger, audit, side>>

\* mailer.send_receipt_email returns True or False
SendReceiptEmail(p) ==
    /\ run[p].pc = "send"
    /\ LET t == CurTriple(run[p])
       IN \E success \in BOOLEAN :
            IF success
            THEN /\ dispatched' = [dispatched EXCEPT ![t] = @ + 1]
                 /\ run' = [run EXCEPT ![p].pc = "register"]
                 /\ hist' = [hist EXCEPT ![p].steps = Append(@, "sent")]
            ELSE /\ dispatched' = dispatched
                 /\ run' = [run EXCEPT ![p].pc = "logfail"]
                 /\ hist' = [hist EXCEPT ![p].steps = Append(@, "send_failed"),
                                         ![p].failedNow = @ \cup {t}]
    /\ UNCHANGED <<now, cycles, creds, checkpoints, ledger, audit, side>>

\* the success branch: _register_sent_receipt
RegisterSent(p) ==
    /\ run[p].pc = "register"
    /\ LET r == run[p]
           row == [account_id |-> r.account, installment_id |-> CurInstallment(r).id,
                   attachment_url |-> CurAttachment(r).url,
                   doctor_email |-> r.doctor_email, sent_at |-> now,
                   receipt_hash |-> r.pdf]
       IN \E db_ok \in BOOLEAN :
            /\ ledger' = RegisterSentReceipt(ledger, row, db_ok)
            /\ hist' = [hist EXCEPT ![p].steps =
                          IF ledger' # ledger THEN Append(@, "record") ELSE @]
    /\ run' = [run EXCEPT ![p].pc = "logsent"]
    /\ UNCHANGED <<now, cycles, creds, checkpoints, audit, dispatched, side>>

\* the success branch: _log_email_sent, end of the pipeline
LogEmailSent(p) ==
    /\ run[p].pc = "logsent"
    /\ LET r == run[p]
           row == [account_id |-> r.account, receipt_id |-> CurAttachment(r).id,
                   doctor_email |-> r.doctor_email, status |-> "sent"]
       IN \E db_ok \in BOOLEAN :
            audit' = LogEmail(audit, row, db_ok)
    /\ run' = [run EXCEPT ![p] = AfterAttachment(run[p])]
    /\ hist' = [hist EXCEPT ![p].steps = <<>>]
    /\ UNCHANGED <<now, cycles, creds, checkpoints, ledger, dispatched, side>>

\* a failure branch that registers the receipt as well
LogEmailFailed_AlsoRegisters(p) ==
    /\ run[p].pc = "logfail"
    /\ LET r == run[p]
           row == [account_id |-> r.account, receipt_id |-> CurAttachment(r).id,
                   doctor_email |-> r.doctor_email, status |-> "failed"]
           sent == [account_id |-> r.account, installment_id |-> CurInstallment(r).id,
                    attachment_url |-> CurAttachment(r).url,
                    doctor_email |-> r.doctor_email, sent_at |-> now,
                    receipt_hash |-> r.pdf]
       IN \E db_ok \in BOOLEAN :
            /\ audit' = LogEmail(audit, row, db_ok)
            /\ ledger' = RegisterSentReceipt(ledger, sent, db_ok)
    /\ run' = [run EXCEPT ![p] = AfterAttachment(run[p])]
    /\ hist' = [hist EXCEPT ![p].steps = <<>>]
    /\ UNCHANGED <<now, cycles, creds, checkpoints, dispatched, side>>

\* the failure branch: _log_email_failed, end of the pipeline
LogEmailFailed(p) ==
    /\ run[p].pc = "logfail"
    /\ LET r == run[p]
           row == [account_id |-> r.account, receipt_id |-> CurAttachment(r).id,
                   doctor_email |-> r.doctor_email, status |-> "failed"]
       IN \E db_ok \in BOOLEAN :
            audit' = LogEmail(audit, row, db_ok)
    /\ run' = [run EXCEPT ![p] = AfterAttachment(run[p])]
    /\ hist' = [hist EXCEPT ![p].steps = <<>>]
    /\ UNCHANGED <<now, cycles, creds, checkpoints, ledger, dispatched, side>>

\* step 7: _update_checkpoint, return (processed, errors)
AdvanceCheckpoint(p) ==
    /\ run[p].pc = "advance"
    /\ checkpoints' = UpdateCheckpoint(checkpoints, run[p].account, now)
    /\ run' = [run EXCEPT ![p] = Return(run[p], run[p].processed, run[p].errors)]
    /\ hist' = [hist EXCEPT ![p].advances = @ + 1, ![p].verdict = "none"]
    /\ UNCHANGED <<now, cycles, creds, ledger, audit, dispatched, side>>

\* the worker process dies in the middle of a cycle and is started again:
\* the locals are lost, the tables stay as committed
Crash(p) ==
    /\ run[p].pc # "idle"
    /\ \A t \in Triples : hist[p].crashes[t] < MaxCrashes
    /\ run' = [run EXCEPT ![p] = IdleRun]
    /\ hist' = [hist EXCEPT ![p] =
                  [NoHist EXCEPT !.crashes =
                      IF run[p].pc = "register"
                      THEN [hist[p].crashes EXCEPT ![CurTriple(run[p])] = @ + 1]
                      ELSE hist[p].crashes]]
    /\ UNCHANGED <<now, cycles, creds, checkpoints, ledger, audit, dispatched, side>>

\* the clock
Tick ==
    /\ now < Now0 + MaxTicks
    /\ now' = now + 1
    /\ UNCHANGED <<cycles, creds, checkpoints, ledger, audit, dispatched, run, hist, side>>

----------------------------------------------------------------------------
(* Specifications *)

\* the credential the account starts with: none, an undecryptable one, or a
\* valid one that expires one unit after the start
InitCreds ==
    { NoCred,
      [present |-> TRUE, access |-> 1, access_ok |-> FALSE, refresh |-> 1,
       expires_at |-> Now0 + 1],
      [present |-> TRUE, access |-> 1, access_ok |-> TRUE, refresh |-> 1,
       expires_at |-> Now0 + 1] }

Init ==
    /\ now = Now0
    /\ cycles = 0
    /\ creds \in [Accounts -> InitCreds]
    /\ checkpoints = [a \in Accounts |-> NoCheckpoint]
    /\ ledger = <<>>
    /\ audit = EmptyBag
    /\ dispatched = [t \in Triples |-> 0]
    /\ run = [p \in AllProcs |-> IdleRun]
    /\ hist = [p \in AllProcs |-> NoHist]
    /\ SideAtRest

Step(p) ==
    \/ StartCycle(p)
    \/ RefreshToken(p)
    \/ LoadCheckpoint(p)
    \/ FetchReceivables(p)
    \/ ProcessReceivable(p)
    \/ ProcessInstallment(p)
    \/ CheckIdempotency(p)
    \/ DownloadReceipt(p)
    \/ ValidateAndResolve(p)
    \/ SendReceiptEmail(p)
    \/ RegisterSent(p)
    \/ LogEmailSent(p)
    \/ LogEmailFailed(p)
    \/ AdvanceCheckpoint(p)

\* one worker process
Next == Step(P) \/ Tick

Spec == Init /\ [][Next]_vars

\* one worker process that may crash and be restarted
NextCrash == Step(P) \/ Tick \/ Crash(P)

SpecCrash == Init /\ [][NextCrash]_vars

\* a deployment with two connected accounts, the first with a valid
\* credential, the second with one that has just expired; the worker runs
\* their cycles one after the other
InitTenants ==
    /\ now = Now0
    /\ cycles = 0
    /\ creds = [a \in Tenants |->
                  [present |-> TRUE, access |-> 1, access_ok |-> TRUE, refresh |-> 1,
                   expires_at |-> IF a = "A1" THEN Now0 + 1 ELSE Now0]]
    /\ checkpoints = [a \in Tenants |-> NoCheckpoint]
    /\ ledger = <<>>
    /\ audit = EmptyBag
    /\ dispatched = [t \in Triples |-> 0]
    /\ run = [p \in AllProcs |-> IdleRun]
    /\ hist = [p \in AllProcs |-> NoHist]
    /\ SideAtRest

\* worker_loop calls process_account for the next account of its list
StartTenantCycle(p) ==
    \E a \in Tenants : StartCycleWith(p, a, checkpoints)

NextTenants ==
    \/ StartTenantCycle(P)
    \/ RefreshToken(P)
    \/ LoadCheckpoint(P)
    \/ FetchReceivables(P)
    \/ ProcessReceivable(P)
    \/ ProcessInstallment(P)
    \/ CheckIdempotency(P)
    \/ DownloadReceipt(P)
    \/ ValidateAndResolve(P)
    \/ SendReceiptEmail(P)
    \/ RegisterSent(P)
    \/ LogEmailSent(P)
    \/ LogEmailFailed(P)
    \/ AdvanceCheckpoint(P)

SpecTenants == InitTenants /\ [][NextTenants]_vars

----------------------------------------------------------------------------
(* worker_loop: one tick per iteration of its while True.  An account is   *)
(* a number here; process_account is taken by what it hands back: a pair   *)
(* (processed, errors) or an exception.                                    *)

\* the polling cycle at rest, while a component is looked at on its own
CoreAtRest ==
    /\ now = Now0
    /\ cycles = 0
    /\ creds = [a \in Accounts |-> NoCred]
    /\ checkpoints = [a \in Accounts |-> NoCheckpoint]
    /\ ledger = <<>>
    /\ audit = EmptyBag
    /\ dispatched = [t \in Triples |-> 0]
    /\ run = [p \in AllProcs |-> IdleRun]
    /\ hist = [p \in AllProcs |-> NoHist]

\* the is_active columns the table azul_accounts can hold
FlagTables == [1..MaxAccounts -> {0, 1}]

\* a query without the filter
ActiveAccounts_All(flags) == [k \in 1..MaxAccounts |-> k]

\* query(AzulAccount).filter(AzulAccount.is_active == 1).all()
ActiveAccounts(flags) ==
    SelectSeq([k \in 1..MaxAccounts |-> k], LAMBDA k : flags[k] = 1)

\* what process_account can hand back
AccountOutcomes ==
    [raised : {FALSE}, processed : 0..1, errors : 0..1]
      \cup { [raised |-> TRUE, processed |-> 0, errors |-> 0] }

\* db = SessionLocal(); FinancialProcessor(db): either may raise, which the
\* outer except logs before the finally sleeps
OpenSession ==
    /\ loop.pc = "open"
    /\ \E ok \in BOOLEAN :
          loop' = [loop EXCEPT !.pc = IF ok THEN "query" ELSE "sleep"]
    /\ UNCHANGED <<core, extra, more, session, http, pager, probe>>

\* accounts = processor.get_active_accounts(); an empty list is only logged
GetActiveAccounts ==
    /\ loop.pc = "query"
    /\ \E ok \in BOOLEAN :
          LET list == ActiveAccounts(loop.flags)
          IN  loop' = IF ~ok
                      THEN [loop EXCEPT !.pc = "sleep", !.seen = loop.flags]
                      ELSE [loop EXCEPT
                              !.pc = IF list = <<>> THEN "sleep" ELSE "account",
                              !.accounts = list, !.listed = list,
                              !.seen = loop.flags, !.read_ok = TRUE]
    /\ UNCHANGED <<core, extra, more, session, http, pager, probe>>

\* an exception of process_account that leaves the for loop
OnAccountRaised_Propagate(l, o) ==
    [l EXCEPT !.pc = "sleep",
              !.visited = Append(@, Head(l.accounts)),
              !.outcomes = Append(@, o),
              !.accounts = <<>>]

\* the except inside the for loop: log, total_errors += 1, next account
OnAccountRaised(l, o) ==
    [l EXCEPT !.pc = IF Tail(l.accounts) = <<>> THEN "sleep" ELSE "account",
              !.visited = Append(@, Head(l.accounts)),
              !.outcomes = Append(@, o),
              !.accounts = Tail(@),
              !.total_errors = @ + 1]

\* the body of the for loop when process_account returns
OnAccountReturned(l, o) ==
    [l EXCEPT !.pc = IF Tail(l.accounts) = <<>> THEN "sleep" ELSE "account",
              !.visited = Append(@, Head(l.accounts)),
              !.outcomes = Append(@, o),
              !.accounts = Tail(@),
              !.total_processed = @ + o.processed,
              !.total_errors = @ + o.errors]

\* one iteration of for account in accounts; while the cycle runs the
\* accounts can be connected or disconnected
ProcessAccount ==
    /\ loop.pc = "account"
    /\ \E o \in AccountOutcomes, flags \in FlagTables :
          loop' = [(IF o.raised THEN OnAccountRaised(loop, o)
                                ELSE OnAccountReturned(loop, o))
                     EXCEPT !.flags = flags]
    /\ UNCHANGED <<core, extra, more, session, http, pager, probe>>

\* finally: db.close(), asyncio.sleep(POLLING_INTERVAL_SECONDS), next iteration
SleepThenTick ==
    /\ loop.pc = "sleep"
    /\ \E flags \in FlagTables :
          loop' = [IdleLoop EXCEPT !.pc = "open", !.flags = flags]
    /\ UNCHANGED <<core, extra, more, session, http, pager, probe>>

InitLoop ==
    /\ CoreAtRest
    /\ ExtraAtRest
    /\ MoreAtRest
    /\ loop \in {[IdleLoop EXCEPT !.pc = "open", !.flags = flags] : flags \in FlagTables}
    /\ session = NoSession
    /\ http = IdleHttp
    /\ pager = IdlePager
    /\ probe = NoProbe

NextLoop == OpenSession \/ GetActiveAccounts \/ ProcessAccount \/ SleepThenTick

\* the event loop runs the one coroutine: every step that can be taken is taken
SpecLoop == InitLoop /\ [][NextLoop]_vars /\ WF_vars(NextLoop)

----------------------------------------------------------------------------
(* The local rate limit of one ContaAzulFinancialClient instance.  Times   *)
(* are in milliseconds.                                                    *)

\* the last two call starts of the instance
Started(l, kind, at) ==
    IF Len(l.starts) < 2
    THEN Append(l.starts, [kind |-> kind, at |-> at])
    ELSE <<l.starts[2], [kind |-> kind, at |-> at]>>

\* _apply_rate_limit: the first call only notes the instant; a later call
\* sleeps for what is left of the interval and notes the instant it wakes
ApplyRateLimit(l) ==
    IF l.last_request_time = -1
    THEN [l EXCEPT !.last_request_time = l.clock]
    ELSE LET elapsed == l.clock - l.last_request_time
             woke == IF elapsed < MIN_INTERVAL_MS
                     THEN l.clock + (MIN_INTERVAL_MS - elapsed)
                     ELSE l.clock
         IN  [l EXCEPT !.clock = woke, !.last_request_time = woke]

\* time passes between two calls
TimePasses ==
    /\ limiter.clock < MaxClockMs
    /\ \E d \in {10, 50} : limiter' = [limiter EXCEPT !.clock = @ + d]
    /\ UNCHANGED <<core, loop, session, http, pager, probe, more, boot>>

\* one attempt of _request (a list request, a detail request, or the retry
\* of one): _apply_rate_limit, then client.request
RequestAttempt ==
    /\ limiter.clock < MaxClockMs
    /\ \E kind \in {"list", "detail", "retry"} :
          LET l == ApplyRateLimit(limiter)
          IN  limiter' = [l EXCEPT !.starts = Started(l, kind, l.clock)]
    /\ UNCHANGED <<core, loop, session, http, pager, probe, more, boot>>

\* download_receipt for an accepted URL: client.get
ReceiptGet ==
    /\ limiter.clock < MaxClockMs
    /\ limiter' = [limiter EXCEPT !.starts = Started(limiter, "download", limiter.clock)]
    /\ UNCHANGED <<core, loop, session, http, pager, probe, more, boot>>

\* process_account constructs the client of its cycle
NewClient ==
    /\ limiter.starts # <<>>
    /\ limiter' = [NoLimiter EXCEPT !.clock = limiter.clock]
    /\ UNCHANGED <<core, loop, session, http, pager, probe, more, boot>>

InitLimiter == CoreAtRest /\ SideAtRest

NextLimiter == TimePasses \/ RequestAttempt \/ ReceiptGet \/ NewClient

SpecLimiter == InitLimiter /\ [][NextLimiter]_vars

----------------------------------------------------------------------------
(* Start-up of the worker process: main, get_settings, and the             *)
(* construction of FinancialProcessor (CryptoManager, MailerService) at    *)
(* the head of every iteration of worker_loop.                             *)

MaxIterations == 2

MASTER_KEY_BYTES == 32

\* the environments the process can be started in
Envs ==
    [MASTER_KEY : [set : BOOLEAN, decodes : BOOLEAN, bytes : {16, 32, 33}],
     SMTP_HOST : {"unset", "empty", "set"},
     SMTP_USER : {"set"},
     SMTP_PASSWORD : {"unset", "empty", "set"},
     SMTP_FROM : {"unset", "empty", "invalid", "valid"}]

\* Settings(): the fields declared without a default must be in the
\* environment, any text is accepted for them
LoadSettings(env) ==
    /\ env.MASTER_KEY.set
    /\ env.SMTP_HOST # "unset"
    /\ env.SMTP_USER # "unset"
    /\ env.SMTP_PASSWORD # "unset"
    /\ env.SMTP_FROM # "unset"

\* CryptoManager.__init__: urlsafe_b64decode and the length test, either
\* failure raised as RuntimeError
CryptoManagerInit(env) ==
    /\ env.MASTER_KEY.decodes
    /\ env.MASTER_KEY.bytes = MASTER_KEY_BYTES

\* MailerService._validate_config: every required field is truthy and
\* SMTP_FROM passes _is_valid_email, else SMTPConfigError
ValidateConfig(env) ==
    /\ env.SMTP_HOST # "empty"
    /\ env.SMTP_USER # "empty"
    /\ env.SMTP_PASSWORD # "empty"
    /\ env.SMTP_FROM # "empty"
    /\ env.SMTP_FROM = "valid"

\* main up to the head of worker_loop: get_settings raises out of
\* worker_loop and main exits with code 1, or the loop is entered
WorkerMain ==
    /\ boot.pc = "off"
    /\ boot' = IF LoadSettings(boot.env)
               THEN [boot EXCEPT !.pc = "loop"]
               ELSE [boot EXCEPT !.pc = "exited", !.exit_code = 1, !.logged = @ + 1]
    /\ UNCHANGED <<core, loop, session, http, pager, probe, more, limiter>>

\* processor = FinancialProcessor(db) inside the try of the loop body: an
\* exception of either constructor is caught by "except Exception", logged,
\* and the body goes to its finally
ConstructProcessor ==
    /\ boot.pc = "loop"
    /\ boot' = IF CryptoManagerInit(boot.env) /\ ValidateConfig(boot.env)
               THEN [boot EXCEPT !.pc = "ready", !.constructed = @ + 1]
               ELSE [boot EXCEPT !.pc = "sleep", !.logged = @ + 1]
    /\ UNCHANGED <<core, loop, session, http, pager, probe, more, limiter>>

\* get_active_accounts and the loop over the accounts
PollAccounts ==
    /\ boot.pc = "ready"
    /\ boot' = [boot EXCEPT !.pc = "sleep", !.polls = @ + 1]
    /\ UNCHANGED <<core, loop, session, http, pager, probe, more, limiter>>

\* finally: close the session, asyncio.sleep, next iteration of while True
SleepUntilNextTick ==
    /\ boot.pc = "sleep"
    /\ boot.iterations < MaxIterations
    /\ boot' = [boot EXCEPT !.pc = "loop", !.iterations = @ + 1]
    /\ UNCHANGED <<core, loop, session, http, pager, probe, more, limiter>>

InitBoot ==
    /\ CoreAtRest
    /\ loop = IdleLoop /\ session = NoSession /\ http = IdleHttp
    /\ pager = IdlePager /\ probe = NoProbe
    /\ MoreAtRest
    /\ limiter = NoLimiter
    /\ \E env \in Envs : boot = [NoBoot EXCEPT !.env = env]

NextBoot == WorkerMain \/ ConstructProcessor \/ PollAccounts \/ SleepUntilNextTick

SpecBoot == InitBoot /\ [][NextBoot]_vars

----------------------------------------------------------------------------
(* One logical API request: ContaAzulFinancialClient._request under its    *)
(* tenacity decorator ("financial"), and ContaAzulClient.get/post over     *)
(* _retry_with_backoff ("legacy").  A response is its HTTP status; 0 is a  *)
(* transport error (httpx.HTTPError raised by the call itself).            *)

Responses == {0, 200, 400, 401, 403, 404, 429, 500, 502, 503}

RECURSIVE Pow2(_)
Pow2(n) == IF n = 0 THEN 1 ELSE 2 * Pow2(n - 1)

\* the pause before the attempt that follows attempt number n:
\* wait_exponential(multiplier=1, min=1, max=16) / base_wait * 2 ** attempt
BackoffSeconds(client, n) ==
    IF client = "financial"
    THEN LET e == Pow2(n - 1)
             capped == IF e < BACKOFF_CAP_SECONDS THEN e ELSE BACKOFF_CAP_SECONDS
         IN  IF capped < 1 THEN 1 ELSE capped
    ELSE Pow2(n - 1)

\* the exception a 429 ends the call with once the attempts are used up
RateLimitFailure(client) ==
    IF client = "financial" THEN "RateLimitError" ELSE "HTTPStatusError"

\* a client that repeats the attempt on a 5xx status as well
AfterResponse_RetryServerErrors(h, resp) ==
    LET n == h.attempts + 1
        g == [h EXCEPT !.attempts = n, !.responses = Append(@, resp)]
    IN  IF resp = 429 \/ resp >= 500
        THEN IF n < MAX_ATTEMPTS
             THEN [g EXCEPT !.pc = "wait"]
             ELSE [g EXCEPT !.pc = "raised", !.outcome = RateLimitFailure(h.client)]
        ELSE IF resp = 0
        THEN [g EXCEPT !.pc = "raised", !.outcome = "HTTPError"]
        ELSE IF resp >= 400
        THEN [g EXCEPT !.pc = "raised", !.outcome = "HTTPStatusError"]
        ELSE [g EXCEPT !.pc = "returned", !.outcome = "json"]

\* the state of the call after the response of one attempt: 429 raises
\* RateLimitError, which alone is retried until stop_after_attempt(5);
\* raise_for_status raises for every other error status; a transport error
\* propagates as raised
AfterResponse(h, resp) ==
    LET n == h.attempts + 1
        g == [h EXCEPT !.attempts = n, !.responses = Append(@, resp)]
    IN  IF resp = 429
        THEN IF n < MAX_ATTEMPTS
             THEN [g EXCEPT !.pc = "wait"]
             ELSE [g EXCEPT !.pc = "raised", !.outcome = RateLimitFailure(h.client)]
        ELSE IF resp = 0
        THEN [g EXCEPT !.pc = "raised", !.outcome = "HTTPError"]
        ELSE IF resp >= 400
        THEN [g EXCEPT !.pc = "raised", !.outcome = "HTTPStatusError"]
        ELSE [g EXCEPT !.pc = "returned", !.outcome = "json"]

\* a caller issues one logical request
StartRequest ==
    /\ http.pc = "idle"
    /\ \E c \in {"financial", "legacy"} :
          http' = [IdleHttp EXCEPT !.pc = "attempt", !.client = c]
    /\ UNCHANGED <<core, extra, more, loop, session, pager, probe>>

\* one attempt: the HTTP call and the handling of its response
Attempt ==
    /\ http.pc = "attempt"
    /\ \E resp \in Responses : http' = AfterResponse(http, resp)
    /\ UNCHANGED <<core, extra, more, loop, session, pager, probe>>

\* the pause between two attempts
Backoff ==
    /\ http.pc = "wait"
    /\ http' = [http EXCEPT !.pc = "attempt",
                            !.waits = Append(@, BackoffSeconds(http.client, http.attempts))]
    /\ UNCHANGED <<core, extra, more, loop, session, pager, probe>>

\* the call has returned or raised; the client is free for the next request
EndRequest ==
    /\ http.pc \in {"returned", "raised"}
    /\ http' = IdleHttp
    /\ UNCHANGED <<core, extra, more, loop, session, pager, probe>>

InitRequest ==
    /\ CoreAtRest
    /\ ExtraAtRest
    /\ MoreAtRest
    /\ loop = IdleLoop
    /\ session = NoSession
    /\ http = IdleHttp
    /\ pager = IdlePager
    /\ probe = NoProbe

NextRequest == StartRequest \/ Attempt \/ Backoff \/ EndRequest

SpecRequest == InitRequest /\ [][NextRequest]_vars

----------------------------------------------------------------------------
(* The pagination loop of get_receivables.  The provider holds `total`     *)
(* matching items and serves them in pages of tamanho_pagina; the items of *)
(* a page are kept as one chunk [page, count] of all_items.                *)

\* the totals looked at: k full pages plus 0, 1 or page_size - 1 items
Totals ==
    { k * RECEIVABLES_PAGE_SIZE + r :
        k \in 0..MaxFullPages, r \in {0, 1, RECEIVABLES_PAGE_SIZE - 1} }

\* the number of items the provider returns for page k of `total` items
PageItems(total, k) ==
    LET before == (k - 1) * RECEIVABLES_PAGE_SIZE
    IN  IF total <= before THEN 0
        ELSE IF total - before >= RECEIVABLES_PAGE_SIZE THEN RECEIVABLES_PAGE_SIZE
        ELSE total - before

\* a loop without the limit on the number of pages
AfterPage_NoLimit(g, count) ==
    IF count = 0
    THEN [g EXCEPT !.pc = "done"]
    ELSE LET h == [g EXCEPT !.all_items =
                        Append(@, [page |-> g.current_page, count |-> count])]
         IN  IF count < RECEIVABLES_PAGE_SIZE
             THEN [h EXCEPT !.pc = "done"]
             ELSE [h EXCEPT !.current_page = @ + 1]

\* the body of the while loop after the page's response: empty page ends,
\* extend, short page ends, next page, more than 100 pages ends
AfterPage(g, count) ==
    IF count = 0
    THEN [g EXCEPT !.pc = "done"]
    ELSE LET h == [g EXCEPT !.all_items =
                        Append(@, [page |-> g.current_page, count |-> count])]
         IN  IF count < RECEIVABLES_PAGE_SIZE
             THEN [h EXCEPT !.pc = "done"]
             ELSE IF g.current_page + 1 > MAX_PAGES
                  THEN [h EXCEPT !.pc = "done", !.current_page = @ + 1]
                  ELSE [h EXCEPT !.current_page = @ + 1]

\* an except branch that ends the loop and keeps what it has
OnPageError_ReturnPartial(g) == [g EXCEPT !.pc = "done", !.failed = TRUE]

\* the except branches of the loop: log, raise
OnPageError(g) == [g EXCEPT !.pc = "raised", !.failed = TRUE]

\* process_account after the call: an exception ends the cycle with (0, 1);
\* a list is gone through and the checkpoint updated (also when it is empty)
AfterGetReceivables(g) ==
    IF g.pc = "raised"
    THEN [g EXCEPT !.pc = "back"]
    ELSE [g EXCEPT !.pc = "back", !.handled = g.all_items, !.advanced = TRUE]

\* get_receivables is called; the provider holds `total` matching items
StartPaging ==
    /\ pager.pc = "idle"
    /\ \E total \in Totals :
          pager' = [IdlePager EXCEPT !.pc = "page", !.total = total, !.current_page = 1]
    /\ UNCHANGED <<core, extra, more, loop, session, http, probe>>

\* one turn of the loop: the request of current_page raises (logged and
\* raised again by get_receivables) or returns the page
FetchPage ==
    /\ pager.pc = "page"
    /\ \E ok \in BOOLEAN :
          LET g == [pager EXCEPT !.requests = Append(@, pager.current_page)]
          IN  pager' = IF ok
                       THEN AfterPage(g, PageItems(pager.total, pager.current_page))
                       ELSE OnPageError(g)
    /\ UNCHANGED <<core, extra, more, loop, session, http, probe>>

\* get_receivables has returned all_items or raised: steps 5 to 7 of
\* process_account
EndPaging ==
    /\ pager.pc \in {"done", "raised"}
    /\ pager' = AfterGetReceivables(pager)
    /\ UNCHANGED <<core, extra, more, loop, session, http, probe>>

\* process_account has returned; the next cycle can call get_receivables
ReturnFromCycle ==
    /\ pager.pc = "back"
    /\ pager' = IdlePager
    /\ UNCHANGED <<core, extra, more, loop, session, http, probe>>

InitPaging ==
    /\ CoreAtRest
    /\ ExtraAtRest
    /\ MoreAtRest
    /\ loop = IdleLoop
    /\ session = NoSession
    /\ http = IdleHttp
    /\ pager = IdlePager
    /\ probe = NoProbe

NextPaging == StartPaging \/ FetchPage \/ EndPaging \/ ReturnFromCycle

SpecPaging == InitPaging /\ [][NextPaging]_vars

\* the event loop runs the coroutine and every _request returns or raises
\* (timeout=30, at most five attempts)
SpecPagingLive == SpecPaging /\ WF_vars(NextPaging)

----------------------------------------------------------------------------
(* _validate_receipt_url.  A URL is the sequence of the pieces of text it  *)
(* is written with, e.g. <<"https", "://", "api", ".", "contaazul", ".",   *)
(* "com", "/", "r.pdf">>; a piece holds no '.', '@', ':' or '/' except    *)
(* the pieces that are an IP literal.                                      *)

ALLOWED_RECEIPT_DOMAINS ==
    { <<"api", ".", "contaazul", ".", "com">>,
      <<"api-v2", ".", "contaazul", ".", "com">>,
      <<"attachments", ".", "contaazul", ".", "com">>,
      <<"cdn", ".", "contaazul", ".", "com">>,
      <<"static", ".", "contaazul", ".", "com">> }

\* str.lower() on one piece
LowerPiece(t) ==
    CASE t = "HTTPS" -> "https"
      [] t = "API" -> "api"
      [] t = "CDN" -> "cdn"
      [] t = "ContaAzul" -> "contaazul"
      [] t = "COM" -> "com"
      [] t = ".PDF" -> ".pdf"
      [] OTHER -> t

Lower(u) == [k \in 1..Len(u) |-> LowerPiece(u[k])]

\* the position of the first / last piece equal to t, 0 if there is none
FirstIndex(u, t) ==
    IF \E k \in 1..Len(u) : u[k] = t
    THEN CHOOSE k \in 1..Len(u) : u[k] = t /\ \A j \in 1..(k - 1) : u[j] # t
    ELSE 0

LastIndex(u, t) ==
    IF \E k \in 1..Len(u) : u[k] = t
    THEN CHOOSE k \in 1..Len(u) : u[k] = t /\ \A j \in (k + 1)..Len(u) : u[j] # t
    ELSE 0

\* urlparse(url).scheme: the text before "://", lower-cased
UrlScheme(u) ==
    LET i == FirstIndex(u, "://")
    IN  IF i = 2 THEN LowerPiece(u[1]) ELSE ""

\* urlparse(url).netloc: from "://" to the first "/"
UrlNetloc(u) ==
    LET i == FirstIndex(u, "://")
        rest == IF i = 0 THEN <<>> ELSE SubSeq(u, i + 1, Len(u))
        j == FirstIndex(rest, "/")
    IN  IF j = 0 THEN rest ELSE SubSeq(rest, 1, j - 1)

\* urlparse(url).hostname: the netloc after its last "@", up to the port,
\* without the brackets of an IPv6 literal, lower-cased
UrlHostname(u) ==
    LET n == UrlNetloc(u)
        a == LastIndex(n, "@")
        hostinfo == SubSeq(n, a + 1, Len(n))
        b == FirstIndex(hostinfo, "]")
        c == FirstIndex(hostinfo, ":")
    IN  IF hostinfo # <<>> /\ hostinfo[1] = "["
        THEN Lower(SubSeq(hostinfo, 2, b - 1))
        ELSE IF c = 0 THEN Lower(hostinfo)
        ELSE Lower(SubSeq(hostinfo, 1, c - 1))

\* str.endswith
EndsWith(u, suffix) ==
    /\ Len(suffix) <= Len(u)
    /\ SubSeq(u, Len(u) - Len(suffix) + 1, Len(u)) = suffix

\* ipaddress.ip_address(hostname): the class of an IP literal, "name" when
\* the text is no IP address (ValueError)
IpClass(hostname) ==
    IF Len(hostname) # 1 THEN "name"
    ELSE CASE hostname[1] \in {"127.0.0.1", "::1"} -> "loopback"
           [] hostname[1] \in {"10.0.0.5", "192.168.1.1", "169.254.169.254",
                                "fc00::1", "fe80::1"} -> "private"
           [] hostname[1] \in {"224.0.0.1", "ff02::1"} -> "multicast"
           [] hostname[1] \in {"240.0.0.1"} -> "reserved"
           [] hostname[1] \in {"8.8.8.8", "2001:4860:4860::8888"} -> "global"
           [] OTHER -> "name"

\* _is_ip_address_safe
IsIpAddressSafe(hostname) ==
    IpClass(hostname) \notin {"loopback", "private", "multicast", "reserved"}

\* a check of the domain that forgets the dot in front of it
DomainAllowed_AnySuffix(hostname) ==
    \E domain \in ALLOWED_RECEIPT_DOMAINS : EndsWith(hostname, domain)

\* domain_allowed: hostname == domain or hostname.endswith("." + domain)
DomainAllowed(hostname) ==
    \E domain \in ALLOWED_RECEIPT_DOMAINS :
        hostname = domain \/ EndsWith(hostname, <<".">> \o domain)

\* _validate_receipt_url
ValidateReceiptUrl(u) ==
    IF u = <<>> THEN FALSE
    ELSE IF UrlScheme(u) # "https" THEN FALSE
    ELSE IF UrlHostname(u) = <<>> THEN FALSE
    ELSE IF ~DomainAllowed(UrlHostname(u)) THEN FALSE
    ELSE IsIpAddressSafe(UrlHostname(u))

\* the URLs looked at, by the parts they are written from
UrlSchemes == { <<>>, <<"https">>, <<"HTTPS">>, <<"http">>, <<"ftp">> }

UrlUserinfos == { <<>>, <<"user">>, <<"api", ".", "contaazul", ".", "com">> }

UrlHostPrefixes == { <<>>, <<"evil">>, <<"evil", ".">>, <<"a", ".", "b", ".">> }

UrlHostBases ==
    ALLOWED_RECEIPT_DOMAINS \cup
    { <<>>, <<"contaazul", ".", "com">>, <<"API", ".", "ContaAzul", ".", "COM">>,
      <<"evil", ".", "com">>, <<"localhost">>,
      <<"127.0.0.1">>, <<"10.0.0.5">>, <<"169.254.169.254">>, <<"224.0.0.1">>,
      <<"240.0.0.1">>, <<"8.8.8.8">>, <<"[", "::1", "]">>, <<"[", "fc00::1", "]">>,
      <<"[", "2001:4860:4860::8888", "]">> }

UrlHostSuffixes == { <<>>, <<".">>, <<".", "evil", ".", "com">>, <<"evil">> }

UrlPorts == { <<>>, <<":", "8443">> }

UrlHosts ==
    { pre \o base \o suf :
        pre \in UrlHostPrefixes, base \in UrlHostBases, suf \in UrlHostSuffixes }

\* the text of the URL written from its parts
WriteUrl(scheme, userinfo, host, port) ==
    (IF scheme = <<>> THEN <<>> ELSE scheme \o <<"://">>)
      \o (IF userinfo = <<>> THEN <<>> ELSE userinfo \o <<"@">>)
      \o host \o port \o <<"/", "r.pdf">>

\* download_receipt is handed a URL (or none)
GiveUrl ==
    /\ probe.pc = "idle"
    /\ \/ probe' = [NoProbe EXCEPT !.pc = "given"]
       \/ \E scheme \in UrlSchemes, userinfo \in UrlUserinfos, host \in UrlHosts,
             port \in UrlPorts :
             probe' = [NoProbe EXCEPT
                         !.pc = "given",
                         !.url = WriteUrl(scheme, userinfo, host, port),
                         !.scheme = scheme, !.userinfo = userinfo, !.host = host]
    /\ UNCHANGED <<core, extra, more, loop, session, http, pager>>

\* the call of _validate_receipt_url
ValidateUrl ==
    /\ probe.pc = "given"
    /\ probe' = [probe EXCEPT !.pc = "decided", !.verdict = ValidateReceiptUrl(probe.url)]
    /\ UNCHANGED <<core, extra, more, loop, session, http, pager>>

\* where a server can redirect the download to
RedirectLocations ==
    { WriteUrl(<<"http">>, <<>>, <<"169.254.169.254">>, <<>>),
      WriteUrl(<<"https">>, <<>>, <<"evil", ".", "com">>, <<>>) }

\* what client.get can come back with: a status (0: the request raised), the
\* Location of a redirect, a body above MAX_RESPONSE_SIZE
HttpResponses ==
    { [status |-> st, location |-> <<>>, large |-> lg] :
        st \in {0, 200, 404, 500}, lg \in {FALSE} }
    \cup { [status |-> 200, location |-> <<>>, large |-> TRUE] }
    \cup { [status |-> 302, location |-> u, large |-> FALSE] : u \in RedirectLocations }

\* the download with follow_redirects=True
DownloadReceiptOutcome_FollowRedirects(pr, resp) ==
    IF ~pr.verdict
    THEN [pr EXCEPT !.pc = "returned", !.result = "none"]
    ELSE [pr EXCEPT !.pc = "returned",
                    !.requests = IF resp.status = 302
                                 THEN <<pr.url, resp.location>>
                                 ELSE <<pr.url>>,
                    !.response = resp,
                    !.result = "none"]

\* download_receipt after the validation: refused without a request, or one
\* GET of the URL with follow_redirects=False, raise_for_status and the size
\* limit; every failure is answered None
DownloadReceiptOutcome(pr, resp) ==
    IF ~pr.verdict
    THEN [pr EXCEPT !.pc = "returned", !.result = "none"]
    ELSE [pr EXCEPT !.pc = "returned",
                    !.requests = Append(@, pr.url),
                    !.response = resp,
                    !.result = IF resp.status = 200 /\ ~resp.large
                               THEN "bytes" ELSE "none"]

\* the rest of download_receipt
GetReceipt ==
    /\ probe.pc = "decided"
    /\ \E resp \in HttpResponses : probe' = DownloadReceiptOutcome(probe, resp)
    /\ UNCHANGED <<core, extra, more, loop, session, http, pager>>

\* download_receipt has returned; the next URL can be handed in
EndValidate ==
    /\ probe.pc = "returned"
    /\ probe' = NoProbe
    /\ UNCHANGED <<core, extra, more, loop, session, http, pager>>

InitUrl ==
    /\ CoreAtRest
    /\ ExtraAtRest
    /\ MoreAtRest
    /\ loop = IdleLoop
    /\ session = NoSession
    /\ http = IdleHttp
    /\ pager = IdlePager
    /\ probe = NoProbe

NextUrl == GiveUrl \/ ValidateUrl \/ GetReceipt \/ EndValidate

SpecUrl == InitUrl /\ [][NextUrl]_vars

----------------------------------------------------------------------------
(* refresh_access_token inside the worker's session: the session is opened *)
(* by worker_loop, used by every account of the tick and closed at the end *)
(* of the tick; session.stored is the committed row, session.attrs the     *)
(* attributes of the loaded OAuthToken object.                             *)

\* the rows the account can have when the worker starts
InitialRows ==
    { NoRow,
      [exists |-> TRUE, access_token |-> Encrypt(AccessToken(0)),
       refresh_token |-> Encrypt(RefreshTokenValue(0)), expires_at |-> 0],
      [exists |-> TRUE, access_token |-> Encrypt(AccessToken(0)),
       refresh_token |-> [cipher |-> RefreshTokenValue(0), intact |-> FALSE],
       expires_at |-> 0] }

\* the values of expires_in a token response can carry
ExpiresInValues ==
    { [type |-> "absent", value |-> 0], [type |-> "int", value |-> 1800],
      [type |-> "str", value |-> 3600], [type |-> "null", value |-> 0] }

\* the answers of the token endpoint to the n-th exchange: no answer
\* (status 0), an error status, a 200 that is not JSON, a 200 with JSON
TokenResponses(n) ==
    { [NoResponse EXCEPT !.status = st] : st \in {0, 401, 500} }
      \cup { [NoResponse EXCEPT !.status = 200] }
      \cup { [status |-> 200, json |-> TRUE, access_token |-> a, refresh_token |-> r,
              expires_in |-> e] :
              a \in {PyNone, AccessToken(n)}, r \in {PyNone, RefreshTokenValue(n)},
              e \in ExpiresInValues }

\* token_data.get("expires_in", 3600)
ExpiresInOf(resp) ==
    IF resp.expires_in.type = "absent"
    THEN [type |-> "int", value |-> DEFAULT_EXPIRES_IN]
    ELSE resp.expires_in

\* the provider issued tokens in this answer
Issued(resp) == resp.status = 200 /\ resp.json /\ resp.access_token # PyNone

\* return None
RefreshFailed(ss, resp) ==
    [ss EXCEPT !.pc = "returned", !.result = "failed", !.response = resp]

\* refresh_access_token, from get_token to the return
RefreshAccessTokenOutcome(ss, resp, commit_ok) ==
    IF ~ss.stored.exists
    THEN \* if not token_record: return None
         RefreshFailed(ss, NoResponse)
    ELSE IF ~ss.stored.refresh_token.intact
    THEN \* decrypt raises: except Exception: return None
         RefreshFailed(ss, NoResponse)
    ELSE IF resp.status # 200 \/ ~resp.json \/ resp.access_token = PyNone
    THEN \* the post raises, status_code != 200, json() raises, no access_token
         RefreshFailed(ss, resp)
    ELSE LET assigned == [ss.attrs EXCEPT
                            !.access_token = Encrypt(resp.access_token),
                            !.refresh_token = Encrypt(resp.refresh_token)]
             issued == [ss EXCEPT !.gen = ss.gen + 1]
         IN  IF ExpiresInOf(resp).type # "int"
             THEN \* timedelta raises after the two attributes were assigned
                  [RefreshFailed(issued, resp) EXCEPT !.attrs = assigned, !.dirty = TRUE]
             ELSE LET row == [assigned EXCEPT
                                !.expires_at = ss.clock + ExpiresInOf(resp).value]
                  IN  IF commit_ok
                      THEN [issued EXCEPT !.pc = "returned", !.result = "ok",
                                          !.response = resp, !.attrs = row,
                                          !.stored = row]
                      ELSE \* commit raises: the transaction is rolled back, and
                           \* the session either refuses further work until
                           \* rollback() or starts anew; nothing of it is stored
                           [RefreshFailed(issued, resp) EXCEPT
                              !.attrs = row, !.dirty = TRUE, !.inactive = TRUE]

\* client.post(TOKEN_URL, data={"grant_type": "refresh_token", ...}): the
\* refresh token sent in the exchange, and whether the provider answered it
\* with new tokens; nothing is sent when the row is absent or decrypt raises
PostedExchanges(ss, resp) ==
    IF ss.stored.exists /\ ss.stored.refresh_token.intact
    THEN Append(ss.posted, [refresh_token |-> Decrypt(ss.stored.refresh_token),
                            exchanged |-> Issued(resp)])
    ELSE ss.posted

\* worker_loop: the sleep ended, the next tick opens its session and
\* process_account loads the row
OpenDb ==
    /\ session.pc = "idle"
    /\ session.sessions < MaxSessions
    /\ session' = [session EXCEPT !.pc = "open",
                                  !.clock = session.clock + POLLING_INTERVAL_SECONDS,
                                  !.sessions = session.sessions + 1,
                                  !.attrs = session.stored,
                                  !.before = session.stored,
                                  !.response = NoResponse, !.result = "none"]
    /\ UNCHANGED <<core, extra, more, loop, http, pager, probe>>

\* process_account: the token is expired, refresh_access_token is called
RefreshAccessToken ==
    /\ session.pc = "open"
    /\ \E resp \in TokenResponses(session.gen + 1), commit_ok \in BOOLEAN :
          session' = [RefreshAccessTokenOutcome(session, resp, commit_ok) EXCEPT
                         !.posted = PostedExchanges(session, resp)]
    /\ UNCHANGED <<core, extra, more, loop, http, pager, probe>>

\* a later commit of the same session: _update_checkpoint of the next
\* account of the tick.  It writes every changed attribute of the session.
CommitLater ==
    /\ session.pc = "returned"
    /\ \E commit_ok \in BOOLEAN :
          session' =
            IF session.inactive THEN [session EXCEPT !.pc = "committed"]
            ELSE IF ~commit_ok
            THEN [session EXCEPT !.pc = "committed", !.inactive = TRUE]
            ELSE [session EXCEPT !.pc = "committed", !.dirty = FALSE,
                                 !.stored = IF session.dirty THEN session.attrs
                                            ELSE session.stored]
    /\ UNCHANGED <<core, extra, more, loop, http, pager, probe>>

\* worker_loop: finally db.close(), what was not committed is dropped
CloseDb ==
    /\ session.pc \in {"returned", "committed"}
    /\ session' = [session EXCEPT !.pc = "idle", !.attrs = session.stored,
                                  !.dirty = FALSE, !.inactive = FALSE]
    /\ UNCHANGED <<core, extra, more, loop, http, pager, probe>>

InitRefresh ==
    /\ CoreAtRest
    /\ ExtraAtRest
    /\ MoreAtRest
    /\ loop = IdleLoop
    /\ session \in {[NoSession EXCEPT !.stored = r, !.attrs = r, !.before = r] :
                       r \in InitialRows}
    /\ http = IdleHttp
    /\ pager = IdlePager
    /\ probe = NoProbe

NextRefresh == OpenDb \/ RefreshAccessToken \/ CommitLater \/ CloseDb

SpecRefresh == InitRefresh /\ [][NextRefresh]_vars

----------------------------------------------------------------------------
(* is_token_expired, on a credential loaded from oauth_tokens through the  *)
(* TZDateTime column type or on an OAuthToken object built in memory.      *)

\* hours to add to the wall-clock reading of an aware datetime to get UTC
UtcShift(tz) == IF tz = "minus3" THEN 3 ELSE 0

\* the instant an aware datetime stands for
InstantOf(dt) == dt.wall + UtcShift(dt.tz)

\* TZDateTime.process_result_value: naive is taken as UTC, another zone is
\* converted to UTC
ProcessResultValue(dt) ==
    IF dt.tz = "naive" THEN DateTime(dt.wall, "utc")
    ELSE IF dt.tz # "utc" THEN DateTime(InstantOf(dt), "utc")
    ELSE dt

\* is_token_expired on datetimes: datetime.now(timezone.utc) >=
\* token.expires_at, where Python raises TypeError on comparing an aware
\* with a naive datetime and compares two aware ones by their instants
IsTokenExpiredCall(clock, expires_at) ==
    IF expires_at.tz = "naive" THEN "raised"
    ELSE IF IsTokenExpired(InstantOf(clock), [expires_at |-> InstantOf(expires_at)])
    THEN "true" ELSE "false"

\* the datetimes an expires_at can hold
ExpiryDateTimes ==
    { DateTime(wall, tz) : wall \in 0..MaxInstant, tz \in {"naive", "utc", "minus3"} }

\* a credential is handed to is_token_expired: a row read from the table
\* or an object built by the caller
GiveCredential ==
    /\ expiry.pc = "idle"
    /\ \E clock \in 0..MaxInstant, dt \in ExpiryDateTimes, source \in {"loaded", "built"} :
          expiry' = [pc |-> "given", source |-> source, now |-> DateTime(clock, "utc"),
                     expires_at |-> IF source = "loaded" THEN ProcessResultValue(dt)
                                    ELSE dt,
                     outcome |-> "none"]
    /\ UNCHANGED <<core, extra, loop, session, http, pager, probe, vault, ckpt, cipher, mail>>

\* the call of is_token_expired
CallIsTokenExpired ==
    /\ expiry.pc = "given"
    /\ expiry' = [expiry EXCEPT !.pc = "answered",
                                !.outcome = IsTokenExpiredCall(expiry.now, expiry.expires_at)]
    /\ UNCHANGED <<core, extra, loop, session, http, pager, probe, vault, ckpt, cipher, mail>>

\* the caller goes on
EndExpiry ==
    /\ expiry.pc = "answered"
    /\ expiry' = NoExpiry
    /\ UNCHANGED <<core, extra, loop, session, http, pager, probe, vault, ckpt, cipher, mail>>

InitExpiry == CoreAtRest /\ SideAtRest

NextExpiry == GiveCredential \/ CallIsTokenExpired \/ EndExpiry

SpecExpiry == InitExpiry /\ [][NextExpiry]_vars

----------------------------------------------------------------------------
(* save_tokens.  vault.tokens and vault.accounts are the committed rows of *)
(* oauth_tokens and azul_accounts, in insertion order; vault.saved lists   *)
(* the arguments of the calls that returned True.                          *)

VaultAccounts == {"acc1", "acc2"}

\* the owner and company fields a call can carry ("" is None)
Profiles ==
    { [owner_email |-> "", owner_name |-> "", company_name |-> ""],
      [owner_email |-> "owner@test.com", owner_name |-> "Old Name",
       company_name |-> "Old Company"],
      [owner_email |-> "owner@test.com", owner_name |-> "New Name",
       company_name |-> "New Company"] }

\* where save_tokens can raise: nowhere, in encrypt, in one of the two
\* queries, while the rows are written (the flush of the commit), or in the
\* commit itself
SaveFaults ==
    {"none", "encrypt", "query_token", "query_account", "write_token",
     "write_account", "commit"}

\* query(...).filter(account_id == id).first(): the position of the first
\* row of the account, 0 if there is none
FirstRow(rows, id) ==
    IF \E k \in 1..Len(rows) : rows[k].account_id = id
    THEN CHOOSE k \in 1..Len(rows) :
           rows[k].account_id = id /\ \A j \in 1..(k - 1) : rows[j].account_id # id
    ELSE 0

\* a write that adds a row without looking for the one that is there
WriteToken_AlwaysAdd(rows, args, expires_at) ==
    Append(rows, [account_id |-> args.account_id,
                  access_token |-> Encrypt(args.access_token),
                  refresh_token |-> Encrypt(args.refresh_token),
                  expires_at |-> expires_at])

\* the oauth_tokens rows with the token of the call written
WriteToken(rows, args, expires_at) ==
    LET k == FirstRow(rows, args.account_id)
    IN  IF k # 0
        THEN [rows EXCEPT ![k] = [@ EXCEPT !.access_token = Encrypt(args.access_token),
                                           !.refresh_token = Encrypt(args.refresh_token),
                                           !.expires_at = expires_at]]
        ELSE Append(rows, [account_id |-> args.account_id,
                           access_token |-> Encrypt(args.access_token),
                           refresh_token |-> Encrypt(args.refresh_token),
                           expires_at |-> expires_at])

\* the azul_accounts rows with the account of the call written
WriteAccount(rows, args) ==
    LET k == FirstRow(rows, args.account_id)
    IN  IF k # 0
        THEN [rows EXCEPT ![k] = [@ EXCEPT !.owner_email = args.owner_email,
                                           !.owner_name = args.owner_name,
                                           !.company_name = args.company_name,
                                           !.is_active = 1]]
        ELSE Append(rows, [account_id |-> args.account_id,
                           owner_email |-> args.owner_email,
                           owner_name |-> args.owner_name,
                           company_name |-> args.company_name, is_active |-> 1])

\* return False after self.db.rollback()
SaveFailed(v, args) ==
    [v EXCEPT !.pc = "returned", !.args = args, !.result = FALSE,
              !.before_tokens = v.tokens, !.before_accounts = v.accounts]

\* a save that commits the token before it turns to the account
SaveTokensOutcome_CommitEach(v, args, fault) ==
    IF fault \in {"encrypt", "query_token", "write_token"} \/ args.expires_in.type # "int"
    THEN SaveFailed(v, args)
    ELSE LET tokens == WriteToken(v.tokens, args, v.saves + args.expires_in.value)
         IN  IF fault # "none"
             THEN [SaveFailed(v, args) EXCEPT !.tokens = tokens]
             ELSE [v EXCEPT !.pc = "returned", !.args = args, !.result = TRUE,
                            !.before_tokens = v.tokens, !.before_accounts = v.accounts,
                            !.tokens = tokens,
                            !.accounts = WriteAccount(v.accounts, args),
                            !.saved = Append(v.saved, args)]

\* save_tokens: everything up to the one commit happens in the session;
\* any exception goes to the rollback
SaveTokensOutcome(v, args, fault) ==
    IF fault = "encrypt" \/ args.expires_in.type # "int"
    THEN \* encrypt or timedelta raises before anything is touched
         SaveFailed(v, args)
    ELSE LET tokens == WriteToken(v.tokens, args, v.saves + args.expires_in.value)
             accounts == WriteAccount(v.accounts, args)
         IN  IF fault # "none"
             THEN \* a query, the flush or the commit raises: rollback
                  SaveFailed(v, args)
             ELSE [v EXCEPT !.pc = "returned", !.args = args, !.result = TRUE,
                            !.before_tokens = v.tokens, !.before_accounts = v.accounts,
                            !.tokens = tokens, !.accounts = accounts,
                            !.saved = Append(v.saved, args)]

\* the OAuth callback calls save_tokens
SaveTokens ==
    /\ vault.pc = "idle"
    /\ vault.saves < MaxSaves
    /\ \E id \in VaultAccounts, profile \in Profiles, fault \in SaveFaults,
          expires_in \in {[type |-> "int", value |-> DEFAULT_EXPIRES_IN],
                          [type |-> "null", value |-> 0]} :
          LET n == vault.saves + 1
              args == [account_id |-> id, access_token |-> AccessToken(n),
                       refresh_token |-> RefreshTokenValue(n), expires_in |-> expires_in,
                       owner_email |-> profile.owner_email,
                       owner_name |-> profile.owner_name,
                       company_name |-> profile.company_name]
          IN  vault' = SaveTokensOutcome([vault EXCEPT !.saves = n], args, fault)
    /\ UNCHANGED <<core, extra, loop, session, http, pager, probe, expiry, ckpt, cipher, mail>>

\* the callback answers
EndSave ==
    /\ vault.pc = "returned"
    /\ vault' = [vault EXCEPT !.pc = "idle"]
    /\ UNCHANGED <<core, extra, loop, session, http, pager, probe, expiry, ckpt, cipher, mail>>

\* the tables when the service starts: empty, or with an account that was
\* connected before and is disconnected now
InitialVaults ==
    { NoVault,
      [NoVault EXCEPT
         !.tokens = << [account_id |-> "acc1", access_token |-> Encrypt(AccessToken(0)),
                        refresh_token |-> Encrypt(RefreshTokenValue(0)),
                        expires_at |-> 0] >>,
         !.accounts = << [account_id |-> "acc1", owner_email |-> "owner@test.com",
                          owner_name |-> "Old Name", company_name |-> "Old Company",
                          is_active |-> 0] >>] }

InitVault ==
    /\ CoreAtRest
    /\ ExtraAtRest
    /\ loop = IdleLoop
    /\ session = NoSession
    /\ http = IdleHttp
    /\ pager = IdlePager
    /\ probe = NoProbe
    /\ expiry = NoExpiry
    /\ vault \in InitialVaults
    /\ ckpt = NoCkpt
    /\ cipher = NoCipher
    /\ mail = NoMail

NextVault == SaveTokens \/ EndSave

SpecVault == InitVault /\ [][NextVault]_vars

----------------------------------------------------------------------------
(* _get_or_create_checkpoint, called by two processors on the same         *)
(* database.  ckpt.rows are the committed rows of financial_checkpoints,   *)
(* ckpt.now is the clock in days.                                          *)

CheckpointAccounts == {"acc1", "acc2"}

\* the rows of an account
CheckpointRowsOf(rows, id) == { k \in 1..Len(rows) : rows[k].account_id = id }

\* a table without the constraint
InsertRejected_NoConstraint(rows, id) == FALSE

\* UniqueConstraint("account_id", name="uq_financial_checkpoint_account"):
\* the insert of a second row of the account fails
InsertRejected(rows, id) == CheckpointRowsOf(rows, id) # {}

\* the call starts: the query for the row of the account
QueryCheckpoint(c) ==
    /\ ckpt.callers[c].pc = "idle"
    /\ ckpt.calls < MaxCheckpointCalls
    /\ \E id \in CheckpointAccounts, days \in {0, 1} :
          LET k == FirstRow(ckpt.rows, id)
          IN  ckpt' = [ckpt EXCEPT
                         !.now = @ + days,
                         !.calls = @ + 1,
                         !.callers[c] =
                            [IdleCaller EXCEPT
                               !.pc = "queried", !.account_id = id, !.found = (k # 0),
                               !.seen = IF k # 0 THEN ckpt.rows[k] ELSE NoCheckpointRow,
                               !.at = ckpt.now + days]]
    /\ UNCHANGED <<core, extra, loop, session, http, pager, probe, expiry, vault, cipher, mail>>

\* the rest of the call: the row found is returned; if none was found a row
\* dated now - 30 days is added and committed, and the commit can raise
FinishCheckpoint(c) ==
    /\ ckpt.callers[c].pc = "queried"
    /\ LET me == ckpt.callers[c]
           row == [account_id |-> me.account_id, has_value |-> TRUE,
                   last_processed_changed_at |-> me.at - LOOKBACK_DAYS]
       IN  IF me.found
           THEN ckpt' = [ckpt EXCEPT !.callers[c] =
                           [me EXCEPT !.pc = "returned", !.row = me.seen,
                                      !.outcome = "returned"]]
           ELSE \E commit_ok \in BOOLEAN :
                  IF commit_ok /\ ~InsertRejected(ckpt.rows, me.account_id)
                  THEN ckpt' = [ckpt EXCEPT
                                  !.rows = Append(@, row),
                                  !.callers[c] =
                                     [me EXCEPT !.pc = "returned", !.row = row,
                                                !.created = TRUE,
                                                !.outcome = "returned"]]
                  ELSE ckpt' = [ckpt EXCEPT !.callers[c] =
                                  [me EXCEPT !.pc = "returned", !.outcome = "raised"]]
    /\ UNCHANGED <<core, extra, loop, session, http, pager, probe, expiry, vault, cipher, mail>>

\* the caller goes on with the row, or handles the exception
EndCheckpoint(c) ==
    /\ ckpt.callers[c].pc = "returned"
    /\ ckpt' = [ckpt EXCEPT !.callers[c] = IdleCaller]
    /\ UNCHANGED <<core, extra, loop, session, http, pager, probe, expiry, vault, cipher, mail>>

\* the table when the workers start: empty, or with a row of acc1 that
\* holds a date or no date
InitialCheckpointRows ==
    { <<>>,
      << [account_id |-> "acc1", has_value |-> TRUE, last_processed_changed_at |-> 7] >>,
      << [account_id |-> "acc1", has_value |-> FALSE, last_processed_changed_at |-> 0] >> }

InitCheckpoint ==
    /\ CoreAtRest
    /\ ExtraAtRest
    /\ loop = IdleLoop
    /\ session = NoSession
    /\ http = IdleHttp
    /\ pager = IdlePager
    /\ probe = NoProbe
    /\ expiry = NoExpiry
    /\ vault = NoVault
    /\ ckpt \in {[NoCkpt EXCEPT !.rows = r] : r \in InitialCheckpointRows}
    /\ cipher = NoCipher
    /\ mail = NoMail

NextCheckpoint ==
    \E c \in AllProcs : QueryCheckpoint(c) \/ FinishCheckpoint(c) \/ EndCheckpoint(c)

SpecCheckpoint == InitCheckpoint /\ [][NextCheckpoint]_vars

----------------------------------------------------------------------------
(* CryptoManager.encrypt and decrypt.  A text is a sequence of characters, *)
(* a Fernet token the record of the key it was made with, its IV and the   *)
(* bytes it carries.                                                       *)

\* the characters looked at: of one, two, three and four UTF-8 bytes, and a
\* lone surrogate, which a Python str can hold and UTF-8 cannot encode
Chars == {"a", "e-acute", "euro", "emoji", "surrogate"}

\* str.encode("utf-8") of one character (<<>>: UnicodeEncodeError)
Utf8Of(ch) ==
    CASE ch = "a" -> <<97>>
      [] ch = "e-acute" -> <<195, 169>>
      [] ch = "euro" -> <<226, 130, 172>>
      [] ch = "emoji" -> <<240, 159, 152, 128>>
      [] OTHER -> <<>>

Encodable(text) == \A k \in 1..Len(text) : Utf8Of(text[k]) # <<>>

\* plaintext.encode("utf-8")
RECURSIVE Utf8Encode(_)
Utf8Encode(text) ==
    IF text = <<>> THEN <<>> ELSE Utf8Of(Head(text)) \o Utf8Encode(Tail(text))

\* the number of bytes of the character that starts with this byte
Utf8Width(byte) ==
    IF byte < 128 THEN 1 ELSE IF byte < 224 THEN 2 ELSE IF byte < 240 THEN 3 ELSE 4

\* a decoding that takes every byte for a character of its own
RECURSIVE Utf8Decode_BytePerChar(_)
Utf8Decode_BytePerChar(bytes) ==
    IF bytes = <<>> THEN <<>>
    ELSE LET first == <<Head(bytes)>>
         IN  <<IF \E ch \in Chars : Utf8Of(ch) = first
               THEN CHOOSE ch \in Chars : Utf8Of(ch) = first
               ELSE "replacement">> \o Utf8Decode_BytePerChar(Tail(bytes))

\* plaintext.decode("utf-8")
RECURSIVE Utf8Decode(_)
Utf8Decode(bytes) ==
    IF bytes = <<>> THEN <<>>
    ELSE LET w == Utf8Width(Head(bytes))
             first == SubSeq(bytes, 1, w)
         IN  <<IF \E ch \in Chars : Utf8Of(ch) = first
               THEN CHOOSE ch \in Chars : Utf8Of(ch) = first
               ELSE "replacement">> \o Utf8Decode(SubSeq(bytes, w + 1, Len(bytes)))

\* Fernet(key).encrypt(data) with the IV drawn for this call
FernetEncrypt(key, iv, data) == [key |-> key, iv |-> iv, data |-> data]

\* Fernet(key).decrypt(token) accepts the token only under the key that
\* signed it
FernetAccepts(key, token) == token.key = key

MasterKeys == {"k1", "k2"}

InitializationVectors == {1, 2, 3}

Texts == UNION { [1..n -> Chars] : n \in 0..MaxTextLen }

\* encrypt(s): the first call on a text, or one more call on the same text
\* under the same key; os.urandom gives an IV that was not used before
EncryptText ==
    /\ \/ /\ cipher.pc = "idle"
          /\ \E text \in Texts, key \in MasterKeys, iv \in InitializationVectors :
                cipher' =
                  IF Encodable(text)
                  THEN [NoCipher EXCEPT
                          !.pc = "encrypted", !.text = text, !.key = key, !.ivs = {iv},
                          !.tokens = <<FernetEncrypt(key, iv, Utf8Encode(text))>>]
                  ELSE [NoCipher EXCEPT !.pc = "done", !.text = text, !.key = key,
                                        !.outcome = "raised"]
       \/ /\ cipher.pc = "encrypted"
          /\ Len(cipher.tokens) = 1
          /\ \E iv \in InitializationVectors \ cipher.ivs :
                cipher' = [cipher EXCEPT
                             !.ivs = @ \cup {iv},
                             !.tokens = Append(@, FernetEncrypt(cipher.key, iv,
                                                                Utf8Encode(cipher.text)))]
    /\ UNCHANGED <<core, extra, loop, session, http, pager, probe, expiry, vault, ckpt, mail>>

\* decrypt(c) of the token made last, by a CryptoManager with some key
DecryptToken ==
    /\ cipher.pc = "encrypted"
    /\ \E key \in MasterKeys :
          LET token == cipher.tokens[Len(cipher.tokens)]
          IN  cipher' =
                IF FernetAccepts(key, token)
                THEN [cipher EXCEPT !.pc = "done", !.decrypt_key = key,
                                    !.plain = Utf8Decode(token.data),
                                    !.outcome = "returned"]
                ELSE [cipher EXCEPT !.pc = "done", !.decrypt_key = key,
                                    !.outcome = "raised"]
    /\ UNCHANGED <<core, extra, loop, session, http, pager, probe, expiry, vault, ckpt, mail>>

EndCipher ==
    /\ cipher.pc = "done"
    /\ cipher' = NoCipher
    /\ UNCHANGED <<core, extra, loop, session, http, pager, probe, expiry, vault, ckpt, mail>>

InitCipher == CoreAtRest /\ SideAtRest

NextCipher == EncryptText \/ DecryptToken \/ EndCipher

SpecCipher == InitCipher /\ [][NextCipher]_vars

----------------------------------------------------------------------------
(* MailerService.send_receipt_email.  mail.smtp lists what was done on the *)
(* SMTP connection of the call.                                            *)

\* str.split(sep): the parts of a text between the separators
RECURSIVE Split(_, _)
Split(text, sep) ==
    LET i == FirstIndex(text, sep)
    IN  IF i = 0 THEN <<text>>
        ELSE <<SubSeq(text, 1, i - 1)>> \o Split(SubSeq(text, i + 1, Len(text)), sep)

\* _is_valid_email
IsValidEmail(email) ==
    IF email = <<>> THEN FALSE
    ELSE LET parts == Split(email, "@")
         IN  IF Len(parts) # 2 THEN FALSE
             ELSE IF parts[1] = <<>> \/ parts[2] = <<>> THEN FALSE
             ELSE \E k \in 1..Len(parts[2]) : parts[2][k] = "."

\* _validate_attachment: TRUE when it returns, FALSE when it raises
\* EmailValidationError
ValidateAttachment(pdf, filename) ==
    IF pdf.size = 0 THEN FALSE
    ELSE IF pdf.size > MAX_ATTACHMENT_MB THEN FALSE
    ELSE IF ~EndsWith(Lower(filename), <<".pdf">>) THEN FALSE
    ELSE pdf.magic

\* where _send_via_smtp can raise: nowhere, on connecting, in starttls, in
\* login (SMTPAuthenticationError), in send_message, or by a timeout
SmtpFaults == {"none", "connect", "starttls", "login", "send_message", "timeout"}

\* the steps of _send_via_smtp on the connection
SmtpSteps(use_ssl, use_tls) ==
    IF use_ssl THEN <<"connect_ssl", "login", "send_message">>
    ELSE IF use_tls THEN <<"connect", "starttls", "login", "send_message">>
    ELSE <<"connect", "login", "send_message">>

\* the steps done when the fault strikes: those before the failing one (a
\* timeout strikes in send_message)
SmtpStepsDone(steps, fault) ==
    LET at == IF fault = "timeout" THEN "send_message"
              ELSE IF fault = "connect" THEN steps[1]
              ELSE fault
        i == FirstIndex(steps, at)
    IN  IF fault = "none" \/ i = 0 THEN steps ELSE SubSeq(steps, 1, i - 1)

\* the fault strikes in this configuration
SmtpFails(steps, fault) ==
    /\ fault # "none"
    /\ fault = "starttls" => FirstIndex(steps, "starttls") # 0

\* a mailer that lets the exception of _send_via_smtp through
SendReceiptEmailOutcome_Propagate(m, args, fault) ==
    LET steps == SmtpSteps(m.use_ssl, m.use_tls)
        called == [m EXCEPT !.pc = "returned", !.args = args, !.fault = fault]
    IN  IF ~IsValidEmail(args.doctor_email) THEN [called EXCEPT !.outcome = "false"]
        ELSE IF args.reply_to # <<>> /\ ~IsValidEmail(args.reply_to)
        THEN [called EXCEPT !.outcome = "false"]
        ELSE IF ~ValidateAttachment(args.pdf, args.pdf_filename)
        THEN [called EXCEPT !.outcome = "false"]
        ELSE IF args.amount # "float" THEN [called EXCEPT !.outcome = "false"]
        ELSE IF SmtpFails(steps, fault)
        THEN [called EXCEPT !.smtp = SmtpStepsDone(steps, fault), !.outcome = "raised"]
        ELSE [called EXCEPT !.smtp = steps, !.outcome = "true"]

\* send_receipt_email
SendReceiptEmailOutcome(m, args, fault) ==
    LET steps == SmtpSteps(m.use_ssl, m.use_tls)
        called == [m EXCEPT !.pc = "returned", !.args = args, !.fault = fault]
    IN  IF ~IsValidEmail(args.doctor_email) THEN [called EXCEPT !.outcome = "false"]
        ELSE IF args.reply_to # <<>> /\ ~IsValidEmail(args.reply_to)
        THEN [called EXCEPT !.outcome = "false"]
        ELSE IF ~ValidateAttachment(args.pdf, args.pdf_filename)
        THEN [called EXCEPT !.outcome = "false"]
        ELSE IF args.amount # "float"
        THEN \* _build_body: the format of the amount raises inside the try
             [called EXCEPT !.outcome = "false"]
        ELSE IF SmtpFails(steps, fault)
        THEN \* _send_via_smtp raises: except Exception: return False
             [called EXCEPT !.smtp = SmtpStepsDone(steps, fault), !.outcome = "false"]
        ELSE [called EXCEPT !.smtp = steps, !.outcome = "true"]

\* the addresses tried ("" and None are <<>>)
MailAddresses ==
    { <<>>, <<"invalid_email">>, <<"doctor", "@", "example", ".", "com">>,
      <<"doctor", "@">>, <<"@", "example", ".", "com">>, <<"doctor", "@", "example">>,
      <<"a", "@", "b", "@", "example", ".", "com">> }

MailPdfs == { [size |-> n, magic |-> g] : n \in {0, 1, MAX_ATTACHMENT_MB, MAX_ATTACHMENT_MB + 1},
                                         g \in BOOLEAN }

MailFilenames == { <<"recibo", ".pdf">>, <<"RECIBO", ".PDF">>, <<"recibo", ".txt">>,
                   <<"recibo", ".pdf", ".exe">> }

\* _process_attachment calls send_receipt_email
CallSendReceiptEmail ==
    /\ mail.pc = "idle"
    /\ \E doctor_email \in MailAddresses,
          reply_to \in {<<>>, <<"invalid_email">>, <<"reply", "@", "example", ".", "com">>},
          pdf \in MailPdfs, pdf_filename \in MailFilenames,
          amount \in {"float", "text"}, fault \in SmtpFaults :
          mail' = SendReceiptEmailOutcome(
                    mail,
                    [doctor_email |-> doctor_email, reply_to |-> reply_to, pdf |-> pdf,
                     pdf_filename |-> pdf_filename, amount |-> amount],
                    fault)
    /\ UNCHANGED <<core, extra, loop, session, http, pager, probe, expiry, vault, ckpt, cipher>>

\* the orchestrator takes the result
EndSendReceiptEmail ==
    /\ mail.pc = "returned"
    /\ mail' = [NoMail EXCEPT !.use_ssl = mail.use_ssl, !.use_tls = mail.use_tls]
    /\ UNCHANGED <<core, extra, loop, session, http, pager, probe, expiry, vault, ckpt, cipher>>

\* the settings SMTP_USE_SSL and SMTP_USE_TLS of the deployment
InitMail ==
    /\ CoreAtRest
    /\ ExtraAtRest
    /\ loop = IdleLoop
    /\ session = NoSession
    /\ http = IdleHttp
    /\ pager = IdlePager
    /\ probe = NoProbe
    /\ expiry = NoExpiry
    /\ vault = NoVault
    /\ ckpt = NoCkpt
    /\ cipher = NoCipher
    /\ mail \in {[NoMail EXCEPT !.use_ssl = ssl, !.use_tls = tls] : ssl, tls \in BOOLEAN}

NextMail == CallSendReceiptEmail \/ EndSendReceiptEmail

SpecMail == InitMail /\ [][NextMail]_vars

----------------------------------------------------------------------------
\* two worker processes on the same database, started at the same instant
\* with a valid credential, each running one cycle.  A step is one database
\* transaction or one network call, so a lookup and the insert that follows
\* it are separate steps that the other process can come between.
InitRace ==
    /\ now = Now0
    /\ cycles = 0
    /\ creds = [a \in Accounts |->
                  [present |-> TRUE, access |-> 1, access_ok |-> TRUE, refresh |-> 1,
                   expires_at |-> Now0 + ExpiresIn]]
    /\ checkpoints = [a \in Accounts |-> NoCheckpoint]
    /\ ledger = <<>>
    /\ audit = EmptyBag
    /\ dispatched = [t \in Triples |-> 0]
    /\ run = [p \in AllProcs |-> IdleRun]
    /\ hist = [p \in AllProcs |-> NoHist]
    /\ SideAtRest

StartOnce(p) ==
    /\ run[p].result = NoResult
    /\ StartCycle(p)

NextRace ==
    \E p \in AllProcs :
        \/ StartOnce(p)
        \/ LoadCheckpoint(p)
        \/ FetchReceivables(p)
        \/ ProcessReceivable(p)
        \/ ProcessInstallment(p)
        \/ CheckIdempotency(p)
        \/ DownloadReceipt(p)
        \/ ValidateAndResolve(p)
        \/ SendReceiptEmail(p)
        \/ RegisterSent(p)
        \/ LogEmailSent(p)
        \/ LogEmailFailed(p)
        \/ AdvanceCheckpoint(p)

SpecRace == InitRace /\ [][NextRace]_vars

----------------------------------------------------------------------------
(* Properties, stated about the worker process P of Spec. *)

Completed(p) == run[p].pc = "idle" /\ run[p].result # NoResult /\ hist[p].abort = "none"

\* the receivable an installment id belongs to
ReceivableOf(t) ==
    CHOOSE r \in SeqToSet(ProviderReceivables) :
        \E k \in 1..Len(r.installments) : r.installments[k].id = t[2]

\* C1: idempotent delivery.  Once the DeliveryRecord of a triple is in the
\* ledger (the first run sent and recorded), a further run of the pipeline
\* leaves exactly one record for the triple, performs no download of the
\* attachment and dispatches no further email for it.
C1_IdempotentDelivery ==
    [][\A t \in Triples :
         InLedger(t) =>
            /\ LedgerCount(t)' = 1
            /\ dispatched'[t] = dispatched[t]
            /\ ~(/\ run[P].pc = "download"
                 /\ CurTriple(run[P]) = t
                 /\ run'[P] # run[P])]_vars

\* C2: at-most-once sending.  Over any sequence of cycles of one processor,
\* no triple has had more than one successful email dispatch.
C2_AtMostOnce == \A t \in Triples : dispatched[t] <= 1

\* C3: ledger uniqueness under races.  In every state reached by two
\* processors working on the same account, the ledger holds at most one
\* DeliveryRecord per (account, installment, attachment URL) triple.
C3_LedgerUnique == \A t \in Triples : LedgerCount(t) <= 1

\* both processors passed the lookup of the same triple, both mailers
\* succeeded, both inserts ran: the first added the row, the second did not
C3_RaceWitness ==
    /\ run[1].pc = "logsent" /\ run[2].pc = "logsent"
    /\ CurTriple(run[1]) = CurTriple(run[2])
    /\ hist[1].steps = <<"lookup", "download", "sent", "record">>
    /\ hist[2].steps = <<"lookup", "download", "sent">>
    /\ dispatched[CurTriple(run[1])] = 2
    /\ LedgerCount(CurTriple(run[1])) = 1

\* C4: ledger ordering.  In a run of the pipeline the lookup precedes the
\* download, a DeliveryRecord is inserted only after the mailer returned
\* success in the same run, and no DeliveryRecord exists for a triple that
\* has had no successful send.
C4_LedgerOrdering ==
    /\ \A t \in Triples : InLedger(t) => dispatched[t] >= 1
    /\ LET st == hist[P].steps
       IN \A k \in 1..Len(st) :
            /\ st[k] = "download" => \E j \in 1..(k - 1) : st[j] = "lookup"
            /\ st[k] = "record" => /\ \E j \in 1..(k - 1) : st[j] = "sent"
                                   /\ \E j \in 1..(k - 1) : st[j] = "download"
                                   /\ \A j \in 1..Len(st) : st[j] # "send_failed"

\* a run that looked up, downloaded, sent and then recorded
C4_Witness ==
    /\ run[P].pc = "logsent"
    /\ hist[P].steps = <<"lookup", "download", "sent", "record">>
    /\ InLedger(CurTriple(run[P]))

\* the step of _log_email_failed
LogFailedStep == run[P].pc = "logfail" /\ run'[P] # run[P]

FailedRows(rows) == AuditCount(rows, CurAttachment(run[P]).id, "failed")

HasStep(name) == \E k \in 1..Len(hist[P].steps) : hist[P].steps[k] = name

C6_CheckpointMonotonic ==
    [][\A a \in Accounts :
         checkpoints[a].present =>
            /\ checkpoints'[a].present
            /\ checkpoints'[a].last_processed_changed_at
                  >= checkpoints[a].last_processed_changed_at
            /\ checkpoints'[a] # checkpoints[a] =>
                 \E p \in AllProcs :
                    /\ run[p].account = a
                    /\ run[p].pc \in {"fetch", "advance"}
                    /\ run'[p].pc = "idle"
                    /\ hist'[p].abort = "none"
                    /\ hist'[p].advances = hist[p].advances + 1]_vars

\* a second cycle advanced a checkpoint that the first had advanced
C6_Witness ==
    /\ Completed(P)
    /\ cycles = 2
    /\ hist[P].cpStart.present
    /\ hist[P].cpStart.last_processed_changed_at >= Now0
    /\ checkpoints["A1"].last_processed_changed_at
          > hist[P].cpStart.last_processed_changed_at

\* C7: fetch-level abort.  If the receivables fetch raises, process_account
\* returns (0, 1), processes no receivable and leaves the checkpoint as it
\* was when the fetch was issued; the next cycle queries from the same
\* changed-since bound.
C7_FetchAbort ==
    /\ (run[P].pc = "idle" /\ hist[P].abort = "fetch") =>
          /\ run[P].result = <<0, 1>>
          /\ run[P].receivables = <<>>
          /\ run[P].processed = 0
          /\ hist[P].advances = 0
          /\ hist[P].cpStart.present => checkpoints[run[P].account] = hist[P].cpStart
          /\ CalculateChangedSince(checkpoints[run[P].account], now) = run[P].changed_since
    /\ (run[P].pc = "fetch" /\ hist[P].prevAbort = "fetch") =>
          run[P].changed_since = hist[P].prevSince

\* the cycle after an aborted fetch, later in time, about to fetch again
C7_Witness ==
    /\ run[P].pc = "fetch"
    /\ hist[P].prevAbort = "fetch"
    /\ now > Now0
    /\ run[P].changed_since = hist[P].prevSince

\* C8: pre-fetch abort.  With no stored credential, an undecryptable access
\* token, or an expired credential whose refresh fails, process_account
\* returns (0, 1), issues no receivables request and neither creates nor
\* advances the checkpoint.
C8_PreFetchAbort ==
    (run[P].pc = "idle" /\ hist[P].abort \in {"no_token", "decrypt", "refresh"}) =>
        /\ run[P].result = <<0, 1>>
        /\ hist[P].requests = 0
        /\ hist[P].advances = 0
        /\ checkpoints[run[P].account] = hist[P].cpStart

\* an expired credential whose refresh failed, on an account never polled
C8_Witness ==
    /\ run[P].pc = "idle"
    /\ hist[P].abort = "refresh"
    /\ run[P].result = <<0, 1>>
    /\ ~checkpoints["A1"].present

C10_FailedSendRetried ==
    (Completed(P) /\ hist[P].prevAbort # "never") =>
        \A t \in hist[P].failedPrev :
            ReceivableOf(t).id \in SeqToSet(run[P].receivables)

\* C11: no gap between polling windows.  When a cycle computes its
\* changed-since bound after an earlier cycle has completed, the bound is not
\* later than the instant the earlier cycle's fetch was issued (the upper
\* bound of that query).
C11_NoGap ==
    [][(/\ run[P].pc = "checkpoint"
        /\ run'[P].pc = "fetch"
        /\ hist[P].fetchedAt # 0) =>
            run'[P].changed_since <= hist[P].fetchedAt]_vars

\* C12: error isolation.  In a completed cycle every fetched receivable has
\* been handled, and every exception caught while handling a receivable or
\* an installment has added one to the returned error count.
C12_ErrorIsolation ==
    Completed(P) =>
        /\ run[P].receivables # <<>> => run[P].ri = Len(run[P].receivables)
        /\ run[P].result[2] >= hist[P].raised

C15_BoundedDuplicate ==
    \A t \in Triples : dispatched[t] <= 1 + hist[P].crashes[t]

\* the errors a tick has to report for the outcomes of its accounts
RECURSIVE ErrorsOf(_)
ErrorsOf(os) ==
    IF os = <<>> THEN 0
    ELSE (IF Head(os).raised THEN 1 ELSE Head(os).errors) + ErrorsOf(Tail(os))

LastResponse == http.responses[Len(http.responses)]

\* C16: retry policy.  A logical request makes at most 5 attempts; an
\* attempt is followed by another one only when its response was 429; any
\* other error status ends the call with the status error right after the
\* attempt that received it; a fifth consecutive 429 ends the call with the
\* rate-limit failure.
C16_RetryPolicy ==
    /\ http.attempts <= 5
    /\ http.attempts = Len(http.responses)
    /\ \A k \in 1..(Len(http.responses) - 1) : http.responses[k] = 429
    /\ http.pc = "wait" => (LastResponse = 429 /\ http.attempts < 5)
    /\ http.pc = "attempt" => http.attempts < 5
    /\ (http.responses # <<>> /\ LastResponse >= 400 /\ LastResponse # 429) =>
          (http.pc = "raised" /\ http.outcome = "HTTPStatusError")
    /\ (http.attempts = 5 /\ LastResponse = 429) =>
          (http.pc = "raised" /\ http.outcome = RateLimitFailure(http.client))

\* five 429 responses in a row have ended the financial client's request
\* with RateLimitError
C16_Witness ==
    /\ http.client = "financial"
    /\ http.responses = <<429, 429, 429, 429, 429>>
    /\ http.waits = <<1, 2, 4, 8>>
    /\ http.pc = "raised"
    /\ http.outcome = "RateLimitError"

\* the page that ends the listing of `total` items: the first one with
\* fewer than 100 items
FirstShortPage(total) == (total \div 100) + 1

\* C17: pagination.  The pages are requested in order from 1; when
\* get_receivables returns, it has requested the pages up to and including
\* the first short page and no other, and all_items is the concatenation,
\* in page order, of the items of those pages.
C17_Pagination ==
    /\ \A k \in 1..Len(pager.requests) : pager.requests[k] = k
    /\ pager.pc = "done" =>
          /\ Len(pager.requests) = FirstShortPage(pager.total)
          /\ \A k \in 1..Len(pager.all_items) :
                pager.all_items[k] = [page |-> k, count |-> PageItems(pager.total, k)]
          /\ Len(pager.all_items) =
                Cardinality({k \in 1..FirstShortPage(pager.total) :
                               PageItems(pager.total, k) > 0})

\* the labels of a host name: the texts between its dots
RECURSIVE Labels(_)
Labels(host) ==
    LET i == FirstIndex(host, ".")
    IN  IF i = 0 THEN <<host>>
        ELSE <<SubSeq(host, 1, i - 1)>> \o Labels(SubSeq(host, i + 1, Len(host)))

\* host is the domain or one of its subdomains: the labels of the domain are
\* the last labels of the host, whatever the case of the letters
SameOrSubdomain(host, domain) ==
    LET h == Labels(Lower(host))
        d == Labels(domain)
    IN  /\ Len(d) <= Len(h)
        /\ \A k \in 1..Len(d) : h[Len(h) - Len(d) + k] = d[k]

\* the host of a URL without the brackets of an IPv6 literal
BareHost(host) ==
    IF Len(host) = 3 /\ host[1] = "[" /\ host[3] = "]" THEN <<host[2]>> ELSE host

\* the hosts made of an allow-listed domain followed by a foreign suffix
ForeignSuffixHosts ==
    { pre \o domain \o suf :
        pre \in UrlHostPrefixes, domain \in ALLOWED_RECEIPT_DOMAINS,
        suf \in UrlHostSuffixes \ {<<>>} }

C19_RotateTogether ==
    /\ (session.pc = "returned" /\ session.result = "ok") =>
          /\ Decrypt(session.stored.access_token) = session.response.access_token
          /\ Decrypt(session.stored.refresh_token) = session.response.refresh_token
          /\ Decrypt(session.stored.refresh_token) = RefreshTokenValue(session.gen)
          /\ session.stored.expires_at =
                session.clock + ExpiresInOf(session.response).value
    /\ (session.stored.exists /\ session.stored.refresh_token.intact) =>
          /\ Decrypt(session.stored.refresh_token).text = "refresh"
          /\ Decrypt(session.stored.refresh_token).gen =
                Decrypt(session.stored.access_token).gen

(* C20: if refresh fails for any reason it returns failure and the stored  *)
(* credential's access token, refresh token and expiry stay exactly as     *)
(* they were before the call.                                              *)
C20_FailureNoEffect ==
    session.result = "failed" => session.stored = session.before

C22_ExpiryNeverRaises ==
    expiry.pc = "answered" => expiry.outcome \in {"true", "false"}

(* C23: whenever save_tokens returns false (encryption or either write     *)
(* failed), neither the credential row nor the account row differs from    *)
(* its state before the call.                                              *)
C23_SaveAtomic ==
    (vault.pc = "returned" /\ ~vault.result) =>
        /\ vault.tokens = vault.before_tokens
        /\ vault.accounts = vault.before_accounts

C23_Witness ==
    /\ vault.pc = "returned"
    /\ ~vault.result
    /\ vault.saves = 2
    /\ Len(vault.saved) = 1
    /\ vault.args.account_id = vault.saved[1].account_id
    /\ vault.args.owner_name # vault.saved[1].owner_name

\* the arguments of the most recent successful call for an account
LastSaved(id) ==
    LET ks == { k \in 1..Len(vault.saved) : vault.saved[k].account_id = id }
    IN  vault.saved[CHOOSE k \in ks : \A j \in ks : j <= k]

(* C24: after any sequence of successful save_tokens calls there is        *)
(* exactly one credential row and exactly one account row per account id,  *)
(* holding the tokens and the owner/company fields of the most recent      *)
(* call, with the account marked active.                                   *)
C24_SaveUpsert ==
    \A id \in VaultAccounts :
        (\E k \in 1..Len(vault.saved) : vault.saved[k].account_id = id) =>
            LET args == LastSaved(id)
                t == { k \in 1..Len(vault.tokens) : vault.tokens[k].account_id = id }
                a == { k \in 1..Len(vault.accounts) : vault.accounts[k].account_id = id }
            IN  /\ Cardinality(t) = 1
                /\ Cardinality(a) = 1
                /\ \A k \in t :
                      /\ Decrypt(vault.tokens[k].access_token) = args.access_token
                      /\ Decrypt(vault.tokens[k].refresh_token) = args.refresh_token
                /\ \A k \in a :
                      /\ vault.accounts[k].owner_email = args.owner_email
                      /\ vault.accounts[k].owner_name = args.owner_name
                      /\ vault.accounts[k].company_name = args.company_name
                      /\ vault.accounts[k].is_active = 1

C24_Witness ==
    /\ Len(vault.saved) = 3
    /\ vault.saved[1].account_id = "acc1"
    /\ vault.saved[2].account_id = "acc2"
    /\ vault.saved[3].account_id = "acc1"
    /\ vault.saved[3].owner_name = "New Name"
    /\ vault.saved[1].owner_name = "Old Name"

(* C25: for an account without a checkpoint _get_or_create_checkpoint      *)
(* creates and persists at once a row dated now(UTC) - 30 days; for an     *)
(* account that has one it returns that row with its date unchanged; after *)
(* any number of calls there is exactly one checkpoint row per account.    *)
C25_GetOrCreateIdempotent ==
    /\ \A id \in CheckpointAccounts :
          Cardinality(CheckpointRowsOf(ckpt.rows, id)) <= 1
    /\ \A c \in AllProcs :
          LET me == ckpt.callers[c]
          IN  (me.pc = "returned" /\ me.outcome = "returned") =>
                /\ Cardinality(CheckpointRowsOf(ckpt.rows, me.account_id)) = 1
                /\ \A k \in CheckpointRowsOf(ckpt.rows, me.account_id) :
                      ckpt.rows[k] = me.row
                /\ me.created =>
                      /\ ~me.found
                      /\ me.row.has_value
                      /\ me.row.last_processed_changed_at = me.at - LOOKBACK_DAYS
                /\ ~me.created => (me.found /\ me.row = me.seen)

C25_Witness ==
    /\ ckpt.callers[1].pc = "returned"
    /\ ckpt.callers[1].created
    /\ ckpt.callers[2].pc = "returned"
    /\ ckpt.callers[2].outcome = "returned"
    /\ ~ckpt.callers[2].created
    /\ ckpt.callers[2].account_id = ckpt.callers[1].account_id
    /\ ckpt.callers[2].at > ckpt.callers[1].at

RECURSIVE CountOf(_, _)
CountOf(text, t) ==
    IF text = <<>> THEN 0
    ELSE (IF Head(text) = t THEN 1 ELSE 0) + CountOf(Tail(text), t)

\* an address that is no address: not exactly one "@", nothing before it,
\* nothing after it, or no dot after it
InvalidAddress(email) ==
    \/ CountOf(email, "@") # 1
    \/ email[1] = "@"
    \/ email[Len(email)] = "@"
    \/ \A k \in (FirstIndex(email, "@") + 1)..Len(email) : email[k] # "."

\* an attachment the mailer must refuse
InvalidAttachment(pdf, filename) ==
    \/ pdf.size = 0
    \/ pdf.size > MAX_ATTACHMENT_MB
    \/ ~pdf.magic
    \/ filename[Len(filename)] \notin {".pdf", ".PDF"}

(* C27: send_receipt_email never raises to the orchestrator; for an        *)
(* invalid recipient or reply-to address, an invalid attachment or any     *)
(* SMTP/transport error it returns false; it returns true only after the   *)
(* SMTP send completed without error; it opens no SMTP connection when a   *)
(* validation fails.                                                       *)
C27_MailerFailsClosed ==
    mail.pc = "returned" =>
        LET a == mail.args
            refused == \/ InvalidAddress(a.doctor_email)
                       \/ (a.reply_to # <<>> /\ InvalidAddress(a.reply_to))
                       \/ InvalidAttachment(a.pdf, a.pdf_filename)
        IN  /\ mail.outcome \in {"true", "false"}
            /\ refused => (mail.outcome = "false" /\ mail.smtp = <<>>)
            /\ SmtpFails(SmtpSteps(mail.use_ssl, mail.use_tls), mail.fault) =>
                  mail.outcome = "false"
            /\ mail.outcome = "true" =>
                  /\ mail.smtp # <<>>
                  /\ mail.smtp[Len(mail.smtp)] = "send_message"
                  /\ ~refused

C27_Witness ==
    /\ mail.pc = "returned"
    /\ mail.outcome = "false"
    /\ mail.fault = "login"
    /\ mail.smtp = <<"connect", "starttls">>
    /\ mail.args.pdf_filename = <<"RECIBO", ".PDF">>

C29_LedgerOnlyGrows ==
    [][/\ Len(ledger') >= Len(ledger)
       /\ \A k \in 1..Len(ledger) : ledger'[k] = ledger[k]]_vars

\* a row recorded in the first cycle is in the ledger after a second cycle
\* that sent its triple again, wrote audit rows and advanced the checkpoint
C29_Witness ==
    /\ Completed(P)
    /\ cycles = 2
    /\ Len(ledger) >= 1
    /\ ledger[1].sent_at < now
    /\ dispatched[<<ledger[1].account_id, ledger[1].installment_id,
                    ledger[1].attachment_url>>] = 2
    /\ checkpoints["A1"].last_processed_changed_at > ledger[1].sent_at

(* C30: download_receipt issues an HTTP request only for a URL that        *)
(* _validate_receipt_url accepted; for a rejected URL it returns None       *)
(* without any request; it never follows a redirect, so it makes at most    *)
(* one request and every URL it requests has passed the validation.         *)
C30_SsrfGate ==
    /\ Len(probe.requests) <= 1
    /\ \A k \in 1..Len(probe.requests) :
          /\ probe.requests[k] = probe.url
          /\ ValidateReceiptUrl(probe.requests[k])
    /\ (probe.pc = "returned" /\ ~ValidateReceiptUrl(probe.url)) =>
          /\ probe.requests = <<>>
          /\ probe.result = "none"

\* an accepted URL was requested and answered with a redirect to the
\* metadata address: the download returned None after its one request
C30_Witness ==
    /\ probe.pc = "returned"
    /\ probe.verdict
    /\ probe.response.status = 302
    /\ probe.response.location = WriteUrl(<<"http">>, <<>>, <<"169.254.169.254">>, <<>>)
    /\ probe.requests = <<probe.url>>
    /\ probe.result = "none"

(* C31: for one client instance, the starts of any two consecutive          *)
(* outbound provider calls (list and detail requests, each retry attempt,   *)
(* attachment downloads) are at least the minimum interval of 100 ms apart. *)
C31_RateLimit ==
    Len(limiter.starts) = 2 =>
        limiter.starts[2].at - limiter.starts[1].at >= MIN_INTERVAL_MS

(* C32: get_receivables terminates even when the provider returns a full   *)
(* page for every request, and it issues at most 100 page requests per     *)
(* call.                                                                   *)
C32_PaginationBounded ==
    /\ [](Len(pager.requests) <= MAX_PAGES)
    /\ (pager.pc = "page") ~> (pager.pc \in {"done", "raised"})

\* a call that got a hundred full pages from a provider holding more has
\* returned
C32_Witness ==
    /\ pager.pc = "done"
    /\ Len(pager.requests) = MAX_PAGES
    /\ Len(pager.all_items) = MAX_PAGES
    /\ pager.total > MAX_PAGES * RECEIVABLES_PAGE_SIZE

(* C40: if any page request of get_receivables fails, the call raises and  *)
(* returns none of the items of the earlier pages: process_account goes    *)
(* through no receivable of the listing and does not advance the           *)
(* checkpoint.                                                             *)
C40_AllOrNothing ==
    pager.failed =>
        /\ pager.pc \in {"raised", "back"}
        /\ pager.handled = <<>>
        /\ ~pager.advanced

\* the third page request failed after two full pages had been accumulated
C40_Witness ==
    /\ pager.pc = "back"
    /\ pager.failed
    /\ pager.requests = <<1, 2, 3>>
    /\ Len(pager.all_items) = 2
    /\ pager.handled = <<>>

\* the attachment of a triple, as the provider serves it
AttachmentOf(t) ==
    CHOOSE x \in UNION { SeqToSet(i.attachments) :
                           i \in { j \in AllInstallments(t[1]) : j.id = t[2] } } :
        x.url = t[3]

\* bytes that start with the PDF marker and number 1 KB to 100 MB
ValidBytes(content) ==
    /\ ContentBytes(content).magic
    /\ ContentBytes(content).size >= 1024
    /\ ContentBytes(content).size <= 100 * 1024 * 1024

(* C33: the orchestrator hands attachment bytes to the mailer only if they  *)
(* start with the PDF magic marker and their size is within [1 KB, 100 MB]; *)
(* bytes failing either check are skipped with no send and no              *)
(* DeliveryRecord, and the pipeline goes on with the sibling attachments.   *)
C33_OnlyValidatedSent ==
    /\ [](run[P].pc \in {"send", "register", "logsent", "logfail"} =>
            ValidBytes(run[P].pdf))
    /\ [](\A t \in Triples :
            ~ValidBytes(AttachmentOf(t).content) =>
                (dispatched[t] = 0 /\ ~InLedger(t)))
    /\ [][(/\ run[P].pc = "validate"
           /\ run'[P] # run[P]
           /\ ~ValidBytes(run[P].pdf)) =>
              /\ run'[P] = AfterAttachment(run[P])
              /\ dispatched' = dispatched
              /\ ledger' = ledger]_vars

\* the 1023 bytes of A8 were downloaded and turned down; its sibling A9 is
\* the next attachment of the installment
C33_Witness ==
    /\ hist[P].verdict = "invalid_pdf"
    /\ run[P].pc = "att"
    /\ CurAttachment(run[P]).id = "A9"
    /\ dispatched[<<"A2", "I6", "U8">>] = 0

\* the installment and the receivable of a triple, as the provider serves them
InstallmentOf(t) == CHOOSE j \in AllInstallments(t[1]) : j.id = t[2]

OwnerOf(t) ==
    CHOOSE r \in SeqToSet(ProviderData(t[1])) :
        \E k \in 1..Len(r.installments) : r.installments[k].id = t[2]

\* the recipient of a triple by the precedence of the specification; "" is none
Recipient(t) ==
    IF InstallmentOf(t).doctorEmail # ""
    THEN InstallmentOf(t).doctorEmail
    ELSE IF OwnerOf(t).customerName \in DOMAIN DOCTORS_FALLBACK
         THEN DOCTORS_FALLBACK[OwnerOf(t).customerName]
         ELSE ""

(* C34: _resolve_doctor_email returns the installment's embedded email when *)
(* it is present, even if the fallback map has an entry for the customer    *)
(* name; otherwise the fallback-map entry for the customer name; otherwise  *)
(* none, and then the attachment is skipped with no send and no             *)
(* DeliveryRecord.                                                          *)
C34_RecipientPrecedence ==
    /\ [](run[P].pc \in {"send", "register", "logsent", "logfail"} =>
            /\ run[P].doctor_email = Recipient(CurTriple(run[P]))
            /\ run[P].doctor_email # "")
    /\ [](\A k \in 1..Len(ledger) :
            ledger[k].doctor_email =
                Recipient(<<ledger[k].account_id, ledger[k].installment_id,
                            ledger[k].attachment_url>>))
    /\ [](\A t \in Triples :
            Recipient(t) = "" => (dispatched[t] = 0 /\ ~InLedger(t)))
    /\ [][(/\ run[P].pc = "validate"
           /\ run'[P] # run[P]
           /\ Recipient(CurTriple(run[P])) = "") =>
              /\ run'[P] = AfterAttachment(run[P])
              /\ dispatched' = dispatched
              /\ ledger' = ledger]_vars

\* the receipt of I1, whose customer is in the fallback map as well, was
\* recorded for the embedded address, and the attachment of I5, which has
\* neither, has just been skipped
C34_Witness ==
    /\ hist[P].verdict = "no_email"
    /\ CurReceivable(run[P]).customerName = "Gama"
    /\ "Acme" \in DOMAIN DOCTORS_FALLBACK
    /\ \E k \in 1..Len(ledger) :
          /\ ledger[k].account_id = "A2"
          /\ ledger[k].installment_id = "I1"
          /\ ledger[k].doctor_email = "d1@example.com"
    /\ dispatched[<<"A2", "I5", "U5">>] = 0

(* C35: for an installment whose status is not one of received, paid or   *)
(* settled, the orchestrator fetches no installment details, downloads no  *)
(* attachment, sends no email and records no DeliveryRecord.               *)
C35_OnlySettledExpanded ==
    /\ [](run[P].pc \in {"att", "download", "validate", "send", "register",
                          "logsent", "logfail"} =>
            CurInstallment(run[P]).status \in {"received", "paid", "settled"})
    /\ [](\A t \in Triples :
            InstallmentOf(t).status \notin {"received", "paid", "settled"} =>
                (dispatched[t] = 0 /\ ~InLedger(t)))
    /\ [][(/\ run[P].pc = "inst"
           /\ run'[P] # run[P]
           /\ CurInstallment(run[P]).status \notin {"received", "paid", "settled"}) =>
              /\ hist'[P].details = hist[P].details
              /\ run'[P] = AfterInstallment([run[P] EXCEPT !.ai = 0])
              /\ dispatched' = dispatched
              /\ ledger' = ledger]_vars

\* the cycle of the second account has gone through its four installments
\* and asked for the details of three: the cancelled I7 was passed over
C35_Witness ==
    /\ run[P].account = "A2"
    /\ run[P].pc = "advance"
    /\ Len(run[P].receivables) = 2
    /\ hist[P].details = 3
    /\ dispatched[<<"A2", "I7", "U10">>] = 0

\* the account whose cycle takes the step
CycleAccount == IF run[P].pc = "idle" THEN run'[P].account ELSE run[P].account

\* the DeliveryRecords of one account, in insertion order
RowsOf(rows, a) == SelectSeq(rows, LAMBDA row : row.account_id = a)

C39_LookupFailsOpen ==
    [][(/\ run[P].pc = "att"
        /\ run'[P] # run[P]
        /\ hist'[P].lookup = "raised") =>
           /\ run'[P].pc = "download"
           /\ run'[P].ai = run[P].ai
           /\ run'[P].ii = run[P].ii]_vars

\* the lookup of a triple that is in the ledger raised and its download is
\* about to start
C39_Witness ==
    /\ run[P].pc = "download"
    /\ hist[P].lookup = "raised"
    /\ InLedger(CurTriple(run[P]))

\* a configuration error: a master key that does not decode to 32 bytes, a
\* required SMTP field that is missing, or an SMTP_FROM that is not an address
ConfigurationError(env) ==
    \/ ~env.MASTER_KEY.set \/ ~env.MASTER_KEY.decodes \/ env.MASTER_KEY.bytes # 32
    \/ env.SMTP_HOST \in {"unset", "empty"}
    \/ env.SMTP_USER \in {"unset", "empty"}
    \/ env.SMTP_PASSWORD \in {"unset", "empty"}
    \/ env.SMTP_FROM \in {"unset", "empty", "invalid"}

(* C36: with a configuration error the worker process does not start       *)
(* polling, runs no tick and does not keep running: it is never asleep     *)
(* waiting for a next iteration of its loop.                               *)
C36_ConfigErrorFatal ==
    ConfigurationError(boot.env) =>
        /\ boot.polls = 0
        /\ boot.iterations = 0
        /\ boot.pc \in {"off", "loop", "exited"}

(* C37: the orchestrator never presents to the token endpoint a refresh    *)
(* token that an earlier successful exchange has consumed, whatever the    *)
(* outcomes of the refreshes in between, a failure to persist included.    *)
C37_NoRefreshTokenReuse ==
    \A j, k \in 1..Len(session.posted) :
        (j < k /\ session.posted[j].exchanged) =>
            session.posted[k].refresh_token # session.posted[j].refresh_token

====
